---- MODULE Spec2Model ----
(***************************************************************************)
(* Model of the session orchestration and streaming-result aggregation     *)
(* layer of zoom-demeanor-evaluator-node: the Transcript Buffer            *)
(* (inworldService.js), the Stream Session Registry and the Visual         *)
(* Sampling Gate (websocketHandler), the Streaming Result Reducer          *)
(* (inworldService.js) and the Shutdown Orchestrator (index).              *)
(*                                                                         *)
(* The repository holds three entry points and two handlers:               *)
(*   build "js"  : unnamed/part_003 (index.js) + src/rtms/websocketHandler.js *)
(*   build "ts"  : index.ts + unnamed/part_000 (websocketHandler.ts)        *)
(*   build "ts2" : unnamed/part_002 (index.ts with isShuttingDown and       *)
(*                 timeouts) + unnamed/part_000                             *)
(* inworldService.js is common to the three.  The variable build is chosen *)
(* in the initial state and never changes.                                 *)
(***************************************************************************)
EXTENDS Integers, Sequences, FiniteSets, TLC

VARIABLES
    build,              \* which entry point / handler pair is running
    transcriptHistory,  \* inworldService.js: let transcriptHistory = []
    appended,           \* history: entries appended since the last clear
    rtmsClients,        \* WebSocketHandler.rtmsClients: Map streamId -> client
    clients,            \* every rtms.Client constructed so far, in order
    emitted,            \* events handed to broadcastToClients by the last handler run
    raised,             \* TRUE iff the last handleWebhookEvent run threw to its caller
    delivered,          \* per viewer, the payloads sent to it by the last handler run
    handled,            \* history: the occurrence the last handler run dealt with
    wsConnections,      \* WebSocketHandler.wsConnections, in insertion order
    readyState,         \* per viewer socket, its readyState
    attached,           \* the sockets whose message/close/error handlers are attached
    cb,                 \* the transcript callback suspended at processTranscript
    graphs,             \* inworldService.js: which *GraphInstance is non-null
    isShuttingDown,     \* part_002: let isShuttingDown = false
    calls,              \* one record per shutdown() invocation, in call order
    effects,            \* history: how often each teardown side effect was performed
    exitCode,           \* status passed to process.exit, NoExit while running
    now,                \* Date.now()
    frames,             \* accepted video frames whose handling is suspended
    analyses,           \* history: the visual-analysis invocations made so far
    red,                \* per reducer, the reduction last called: where it is
                        \* suspended, its accumulated text, what it returned
    pt,                 \* processTranscript: "idle", "awaiting" the two
                        \* reducers, "resolved" or "rejected"
    upstream,           \* the score object the scoring pipeline writes out
    consumed,           \* history: per reducer, the chunks its reduction has
                        \* taken from the stream, in order (kept in SpecChunks)
    cycles,             \* the transcript callbacks suspended at processTranscript
                        \* when callbacks overlap (SpecOverlap)
    sent                \* history: the evaluation updates broadcast so far, each
                        \* by the arrival number of its transcript

----------------------------------------------------------------------------
(* Bounds of the model *)

MaxAppends == 52   \* transcript callbacks between two clears
MaxClients == 3    \* rtms.Client objects constructed in one run
MaxCalls == 2      \* shutdown() invocations in one run
SessionAppends == 1  \* utterances between two clears in SpecSession
ShutdownAppends == 1 \* utterances between two clears in SpecShutdown

MaxChunks == 3     \* chunks consumed by one reduction
ReduceAppends == 1 \* utterances between two clears in SpecReduce
HubClients == 1    \* rtms.Client objects constructed in SpecHub
HubAppends == 1    \* utterances between two clears in SpecHub
TeardownClients == 2   \* rtms.Client objects constructed in SpecTeardown
TeardownAppends == 1   \* utterances before the shutdown in SpecTeardown
AppendCalls == 2       \* entries appended between two clears in SpecAppend
OverlapCycles == 2     \* transcript callbacks of one run in SpecOverlap
CycleClients == 1  \* rtms.Client objects constructed in SpecCycle and SpecFrames
MaxElapsed == 6000  \* milliseconds of clock time followed in SpecGate
GateClients == 2   \* rtms.Client objects constructed in SpecGate
MaxFrames == 1     \* accepted frames in flight at once

(* Program constants *)

HistoryCap == 50   \* addTranscript: keep only last 50 entries
ScreenshotInterval == 5000  \* const SCREENSHOT_INTERVAL = 5000

\* Date.now() when the process starts: the clock reads far more than one
\* interval, so the first frame of a client always passes the gate.
StartTime == 2 * ScreenshotInterval
\* the gaps between two events that the model follows
TickSteps == {1000, 4999}

Builds == {"js", "ts", "ts2"}
StreamIds == {"s1", "s2"}
Undefined == "undefined"
\* payload?.rtms_stream_id: a stream id, or absent
Keys == StreamIds \cup {Undefined}
NoClient == 0
NoExit == -1
Graphs == <<"guidance", "evaluation", "visual">>
GraphNames == {Graphs[i] : i \in 1..3}

Min(a, b) == IF a < b THEN a ELSE b
Max(a, b) == IF a > b THEN a ELSE b

----------------------------------------------------------------------------
(* Transcript Buffer: inworldService.js *)

\* { speaker, text, timestamp: Date.now(), ...metadata }: the keys of
\* metadata are spread last, so a speaker, text, timestamp or userId key of
\* metadata replaces the value written before it.
NewEntry(speaker, text, nowv, metadata) ==
    [speaker   |-> IF "speaker" \in DOMAIN metadata
                   THEN metadata["speaker"] ELSE speaker,
     text      |-> IF "text" \in DOMAIN metadata
                   THEN metadata["text"] ELSE text,
     timestamp |-> IF "timestamp" \in DOMAIN metadata
                   THEN metadata["timestamp"] ELSE nowv,
     userId    |-> IF "userId" \in DOMAIN metadata
                   THEN metadata["userId"] ELSE Undefined]

\* Array.prototype.slice(-n)
SliceLast(h, n) ==
    IF Len(h) <= n THEN h ELSE SubSeq(h, Len(h) - n + 1, Len(h))

TruncateNever(h) == h

TruncateKeepOldest(h) ==
    IF Len(h) > HistoryCap THEN SubSeq(h, 1, HistoryCap) ELSE h

\* if (transcriptHistory.length > 50) transcriptHistory = transcriptHistory.slice(-50)
Truncate(h) ==
    IF Len(h) > HistoryCap THEN SliceLast(h, HistoryCap) ELSE h

\* addTranscript: the history after push and truncation
AddTranscript(h, entry) == Truncate(Append(h, entry))

\* clearTranscriptHistory
ClearedHistory == << >>

----------------------------------------------------------------------------
(* JavaScript values.  A value is a record [k, x, s]: k its type, x its    *)
(* number in tenths (7.5 is 75), s its string.                             *)

Fns == {"guidance", "scores", "visual"}
Fields == {"professionalism", "friendliness", "helpfulness"}

JUndef == [k |-> "undef", x |-> 0, s |-> ""]
JNull == [k |-> "null", x |-> 0, s |-> ""]
JNaN == [k |-> "nan", x |-> 0, s |-> ""]
JNum(x) == [k |-> "num", x |-> x, s |-> ""]
JStr(str) == [k |-> "str", x |-> 0, s |-> str]
JBool(b) == [k |-> "bool", x |-> IF b THEN 1 ELSE 0, s |-> ""]

NoFields == [f \in Fields |-> JUndef]

----------------------------------------------------------------------------
(* Viewer Broadcast Hub: WebSocketHandler.broadcastToClients *)

Viewers == {"v1", "v2"}
\* the sets of viewer sockets whose send() throws during one handler run
FailSets == SUBSET Viewers

\* the object handed to broadcastToClients: guidance and visualFeedback are
\* texts, scores a score object; a key the object does not have is << >> or
\* undefined
Event(type, s) ==
    [type |-> type, streamId |-> s, guidance |-> << >>, scores |-> NoFields,
     visualFeedback |-> << >>, error |-> FALSE]

\* JSON.stringify(message): a NaN is written as null
Stringify(ev) ==
    [ev EXCEPT !.scores = [f \in Fields |->
                              IF ev.scores[f].k = "nan" THEN JNull ELSE ev.scores[f]]]

IsOpen(rs, v) == rs[v] = "open"

\* the position in the set of the first open viewer whose send throws, or
\* one past the end
FirstThrow(conns, rs, bad) ==
    LET hits == {i \in 1..Len(conns) : IsOpen(rs, conns[i]) /\ conns[i] \in bad}
    IN IF hits = {} THEN Len(conns) + 1
       ELSE CHOOSE i \in hits : \A j \in hits : i <= j

SentToAll(conns, rs, bad) == {conns[i] : i \in 1..Len(conns)}

\* wsConnections.forEach(ws => { if (ws.readyState === ws.OPEN) ws.send(..) }):
\* the viewers the payload is sent to; a send that throws ends the loop
SentTo(conns, rs, bad) ==
    {conns[i] : i \in {j \in 1..(FirstThrow(conns, rs, bad) - 1) : IsOpen(rs, conns[j])}}

\* TRUE iff broadcastToClients throws to its caller
BroadcastThrows(conns, rs, bad) == FirstThrow(conns, rs, bad) <= Len(conns)

\* what each viewer has been sent, after one more broadcast of ev
Broadcast(dl, ev, conns, rs, bad) ==
    [v \in Viewers |-> IF v \in SentTo(conns, rs, bad)
                       THEN Append(dl[v], Stringify(ev)) ELSE dl[v]]

NothingDelivered == [v \in Viewers |-> << >>]

\* the occurrence a handler run dealt with: event is its kind, found the
\* client registered under the stream id when the run began, session the
\* client the run created or acted on, faults the stages of the run that
\* failed
Occurrence(event, s, found, session, faults) ==
    [event |-> event, streamId |-> s, found |-> found, session |-> session,
     faults |-> faults]

NothingHandled == Occurrence("none", Undefined, NoClient, NoClient, {})
NoCallback == [client |-> NoClient, streamId |-> Undefined, faults |-> {}]

----------------------------------------------------------------------------
(* Stream Session Registry: WebSocketHandler.handleWebhookEvent *)

Running == exitCode = NoExit

bufVars == <<transcriptHistory, appended>>
sesVars == <<rtmsClients, clients>>
outVars == <<emitted, raised, delivered, handled>>
hubVars == <<wsConnections, readyState, attached, cb>>
sdVars  == <<isShuttingDown, calls, effects, exitCode>>
gateVars == <<now, frames, analyses>>
redVars == <<red, pt, upstream, consumed, cycles, sent>>

\* a client on which the three callbacks were registered and join(payload)
\* was called; the payload is the one that carries the stream id s
NewClient(s) ==
    [streamId |-> s, status |-> "joined", lastScreenshotTime |-> 0,
     callbacks |-> {"transcript", "video", "audio"}, joinedWith |-> s]

\* a client that was constructed and nothing more
BareClient(s) ==
    [streamId |-> s, status |-> "created", lastScreenshotTime |-> 0,
     callbacks |-> {}, joinedWith |-> Undefined]

RegisterNever(reg, s, c) == reg

\* websocketHandler.js: this.rtmsClients.set(streamId, client)
\* part_000:            if (streamId) { this.rtmsClients.set(streamId, client) }
Register(reg, s, c) ==
    IF build = "js" \/ s # Undefined THEN [reg EXCEPT ![s] = c] ELSE reg

\* event === 'meeting.rtms_started': construct the client, register it, clear
\* the history, broadcast meeting_started, register the callbacks, join.  A
\* send that throws in the broadcast leaves the handler before the callbacks
\* are registered and before join.
Started(s) ==
    /\ Running
    /\ Len(clients) < MaxClients
    /\ \E bad \in FailSets :
          LET ev == Event("meeting_started", s)
              thrown == BroadcastThrows(wsConnections, readyState, bad)
          IN /\ clients' = Append(clients, IF thrown THEN BareClient(s)
                                           ELSE NewClient(s))
             /\ emitted' = << ev >>
             /\ delivered' = Broadcast(NothingDelivered, ev, wsConnections,
                                       readyState, bad)
             /\ raised' = thrown
             /\ handled' = Occurrence("started", s, rtmsClients[s],
                                      Len(clients) + 1,
                                      IF thrown THEN {"send"} ELSE {})
    /\ rtmsClients' = Register(rtmsClients, s, Len(clients) + 1)
    /\ transcriptHistory' = ClearedHistory
    /\ appended' = << >>
    /\ UNCHANGED <<build, hubVars, gateVars, redVars, graphs, sdVars>>

LookupFirst(reg, s) ==
    IF \E k \in Keys : reg[k] # NoClient
    THEN reg[CHOOSE k \in Keys : reg[k] # NoClient] ELSE NoClient

\* if (!streamId) return; const client = this.rtmsClients.get(streamId);
\* if (!client) return: the client a stopped event acts on, if any
Lookup(reg, s) == IF s = Undefined THEN NoClient ELSE reg[s]

\* event === 'meeting.rtms_stopped'.  leave is the outcome of client.leave():
\* the call sits outside any try block, so a throw leaves the handler there.
Stopped(s, leave) ==
    /\ Running
    /\ IF Lookup(rtmsClients, s) = NoClient
       THEN /\ emitted' = << >>
            /\ delivered' = NothingDelivered
            /\ raised' = FALSE
            /\ handled' = Occurrence("stopped", s, NoClient, NoClient, {})
            /\ UNCHANGED <<bufVars, sesVars>>
       ELSE IF leave = "throws"
       THEN /\ emitted' = << >>
            /\ delivered' = NothingDelivered
            /\ raised' = TRUE
            /\ handled' = Occurrence("stopped", s, Lookup(rtmsClients, s),
                                     Lookup(rtmsClients, s), {"leave"})
            /\ UNCHANGED <<bufVars, sesVars>>
       ELSE \E bad \in FailSets :
               LET ev == Event("meeting_stopped", s)
                   c == Lookup(rtmsClients, s)
                   thrown == BroadcastThrows(wsConnections, readyState, bad)
               IN /\ clients' = [clients EXCEPT ![c].status = "left"]
                  /\ rtmsClients' = [rtmsClients EXCEPT ![s] = NoClient]
                  /\ transcriptHistory' = ClearedHistory
                  /\ appended' = << >>
                  /\ emitted' = << ev >>
                  /\ delivered' = Broadcast(NothingDelivered, ev, wsConnections,
                                            readyState, bad)
                  /\ raised' = thrown
                  /\ handled' = Occurrence("stopped", s, c, c,
                                           IF thrown THEN {"send"} ELSE {})
    /\ UNCHANGED <<build, hubVars, gateVars, redVars, graphs, sdVars>>

OtherEventAsStarted ==
    /\ Running
    /\ emitted' = << Event("meeting_started", Undefined) >>
    /\ delivered' = Broadcast(NothingDelivered, Event("meeting_started", Undefined),
                              wsConnections, readyState, {})
    /\ raised' = FALSE
    /\ handled' = Occurrence("other", Undefined, NoClient, NoClient, {})
    /\ transcriptHistory' = ClearedHistory
    /\ appended' = << >>
    /\ UNCHANGED <<build, hubVars, gateVars, redVars, sesVars, graphs, sdVars>>

\* any other event tag: logged and ignored
OtherEvent ==
    /\ Running
    /\ emitted' = << >>
    /\ delivered' = NothingDelivered
    /\ raised' = FALSE
    /\ handled' = Occurrence("other", Undefined, NoClient, NoClient, {})
    /\ UNCHANGED <<build, hubVars, gateVars, redVars, bufVars, sesVars, graphs, sdVars>>

\* Set.prototype.delete
Remove(conns, v) == SelectSeq(conns, LAMBDA x : x # v)

InSet(conns, v) == \E i \in 1..Len(conns) : conns[i] = v

\* ws.send(JSON.stringify({ type: 'connected', ... })) in the connection
\* handler: the sockets the acknowledgment is written to
Greets(conns, v) == {v}

\* wss.on('connection') for socket v, where ws.send throws for the sockets
\* of bad: the socket is added to the set and sent the connected message;
\* when the send returns, the message, close and error handlers are
\* attached.  A send that throws leaves the handler there: the socket is in
\* the set, was sent nothing and has no handlers.
ViewerConnectsWith(v, bad) ==
    /\ Running
    /\ ~InSet(wsConnections, v)
    /\ readyState[v] \in {"none", "closed"}
    /\ wsConnections' = Append(wsConnections, v)
    /\ readyState' = [readyState EXCEPT ![v] = "open"]
    /\ emitted' = << >>
    /\ LET thrown == Greets(wsConnections, v) \cap bad # {}
       IN /\ delivered' = [u \in Viewers |->
                              IF u \in Greets(wsConnections, v) \ bad
                              THEN << Stringify(Event("connected", Undefined)) >>
                              ELSE << >>]
          /\ raised' = thrown
          /\ attached' = IF thrown THEN attached \ {v} ELSE attached \cup {v}
          /\ handled' = Occurrence("connection", Undefined, NoClient, NoClient,
                                   IF thrown THEN {"send"} ELSE {})
    /\ UNCHANGED <<build, gateVars, redVars, bufVars, sesVars, cb, graphs, sdVars>>

ViewerConnects(v) == \E bad \in SUBSET {v} : ViewerConnectsWith(v, bad)

\* the transport moves a socket from OPEN to CLOSING; no handler runs
SocketMoves(v) ==
    /\ Running
    /\ readyState[v] = "open"
    /\ readyState' = [readyState EXCEPT ![v] = "closing"]
    /\ UNCHANGED <<build, gateVars, redVars, bufVars, sesVars, outVars,
                   wsConnections, attached, cb, graphs, sdVars>>

\* The transport closes socket v, or reports an error on it; the socket is
\* followed as CLOSED from here on.  ws.on('close') and ws.on('error')
\* delete the socket from the set; they test nothing, and delete on a
\* socket that is no longer in the set leaves the set as it was.  A socket
\* whose connection handler was left at the send has neither handler and
\* stays in the set.
ViewerGone(v) ==
    /\ Running
    /\ readyState[v] \in {"open", "closing"}
    /\ wsConnections' = IF v \in attached THEN Remove(wsConnections, v)
                        ELSE wsConnections
    /\ readyState' = [readyState EXCEPT ![v] = "closed"]
    /\ attached' = attached \ {v}
    /\ UNCHANGED <<build, gateVars, redVars, bufVars, sesVars, outVars,
                   cb, graphs, sdVars>>

\* ws.on('message'): { type: 'clear_history' } clears the history
ClearHistoryMsg ==
    /\ Running
    /\ transcriptHistory' = ClearedHistory
    /\ appended' = << >>
    /\ UNCHANGED <<build, hubVars, gateVars, redVars, sesVars, outVars, graphs, sdVars>>

\* the metadata objects addTranscript is called with: none, a user id, the
\* { userId, timestamp } of the transcript callback (timestamp is the one
\* the media source handed to the callback), and objects with a speaker or
\* a text key
Metadatas ==
    {<< >>,
     [userId |-> "u1"],
     [userId |-> "u1", timestamp |-> 0],
     [userId |-> "u1", timestamp |-> StartTime],
     [speaker |-> "Other"],
     [text |-> 0]}

Speakers == {"Host", "Guest"}

\* the exported addTranscript(speaker, text, metadata) is called at clock
\* time now
AddTranscriptCall(speaker, text, metadata) ==
    /\ Running
    /\ LET entry == NewEntry(speaker, text, now, metadata)
       IN /\ transcriptHistory' = AddTranscript(transcriptHistory, entry)
          /\ appended' = Append(appended, entry)
    /\ UNCHANGED <<build, hubVars, gateVars, redVars, sesVars, outVars, graphs, sdVars>>

\* The messages a viewer sends: the clear request, a JSON object of
\* another type, a JSON object without a type, the JSON text null, and a
\* text that is not JSON.
ViewerMessages == {"clear_history", "other_type", "no_type", "null", "malformed"}

\* JSON.parse(message) throws on a text that is not JSON; data.type throws
\* on null.  Both happen inside the try block of the handler.
MessageThrows(m) == m \in {"null", "malformed"}

ClearsHistoryUnlessMalformed(m) == m # "malformed"

\* if (data.type === 'clear_history')
ClearsHistory(m) == ~MessageThrows(m) /\ m = "clear_history"

\* ws.on('message') of viewer v: the whole handler
OnViewerMessage(v, m) ==
    /\ Running
    /\ v \in attached
    /\ readyState[v] \in {"open", "closing"}
    /\ IF ClearsHistory(m)
       THEN transcriptHistory' = ClearedHistory /\ appended' = << >>
       ELSE UNCHANGED bufVars
    /\ emitted' = << >>
    /\ delivered' = NothingDelivered
    /\ raised' = FALSE
    /\ handled' = Occurrence(IF ClearsHistory(m) THEN "clear_history" ELSE "message",
                             Undefined, NoClient, NoClient,
                             IF MessageThrows(m) THEN {"parse"} ELSE {})
    /\ UNCHANGED <<build, hubVars, gateVars, redVars, sesVars, graphs, sdVars>>

\* client.onTranscriptData callback of client c, up to its first suspension:
\* processTranscript runs addTranscript, then getGuidance and
\* getEvaluationScores each fetch their graph instance and start it.  The
\* k-th utterance since the last clear carries the text k.  The two
\* reductions it starts are followed chunk by chunk from
\* CallProcessTranscript, below.
OnTranscriptData(c) ==
    /\ Running
    /\ c \in 1..Len(clients)
    /\ clients[c].status = "joined"
    /\ Len(appended) < MaxAppends
    /\ LET entry == NewEntry("Host", Len(appended) + 1, 0,
                             [userId |-> "u1", timestamp |-> 0])
       IN /\ transcriptHistory' = AddTranscript(transcriptHistory, entry)
          /\ appended' = Append(appended, entry)
    /\ graphs' = [graphs EXCEPT !["guidance"] = TRUE, !["evaluation"] = TRUE]
    /\ UNCHANGED <<build, hubVars, gateVars, redVars, sesVars, outVars, sdVars>>

----------------------------------------------------------------------------
(* Streaming Result Reducer: getGuidance, getEvaluationScores,             *)
(* processVisualEvaluation and processTranscript of inworldService.js.     *)
(*                                                                         *)
(* A text is a sequence of lexemes; "" is << >>.  A JavaScript value is a  *)
(* record [k, x, s]: k its type, x its number in tenths (7.5 is 75), s its *)
(* string.                                                                 *)

\* the JSON literals the model writes and reads, each with its value
Literals ==
    {<<"null", JNull>>, <<"true", JBool(TRUE)>>, <<"false", JBool(FALSE)>>,
     <<"-3", JNum(-30)>>, <<"0", JNum(0)>>, <<"0.5", JNum(5)>>, <<"1", JNum(10)>>,
     <<"7", JNum(70)>>, <<"7.5", JNum(75)>>, <<"10", JNum(100)>>,
     <<"15", JNum(150)>>, <<"\"\"", JStr("")>>, <<"\"7\"", JStr("7")>>,
     <<"\"high\"", JStr("high")>>}

IsLiteral(lx) == \E p \in Literals : p[1] = lx
ValueOf(lx) == (CHOOSE p \in Literals : p[1] = lx)[2]
LiteralOf(v) == (CHOOSE p \in Literals : p[2] = v)[1]

KeyLexemes ==
    {<<"\"professionalism\"", "professionalism">>,
     <<"\"friendliness\"", "friendliness">>,
     <<"\"helpfulness\"", "helpfulness">>}

IsKey(lx) == \E p \in KeyLexemes : p[1] = lx
FieldOf(lx) == (CHOOSE p \in KeyLexemes : p[1] = lx)[2]
KeyOf(f) == (CHOOSE p \in KeyLexemes : p[2] = f)[1]

ParseError == [ok |-> FALSE, kind |-> "error", fields |-> NoFields]

\* the members of a JSON object, read left to right: key : literal, then
\* either the end or a comma and more members; a repeated key keeps the
\* last value
RECURSIVE ParseMembers(_, _)
ParseMembers(toks, acc) ==
    IF Len(toks) < 3 \/ ~IsKey(toks[1]) \/ toks[2] # ":" \/ ~IsLiteral(toks[3])
    THEN ParseError
    ELSE LET acc2 == [acc EXCEPT ![FieldOf(toks[1])] = ValueOf(toks[3])]
         IN IF Len(toks) = 3
            THEN [ok |-> TRUE, kind |-> "object", fields |-> acc2]
            ELSE IF toks[4] # ","
            THEN ParseError
            ELSE ParseMembers(SubSeq(toks, 5, Len(toks)), acc2)

\* JSON.parse: a literal, or an object of literal members; anything else
\* throws
JsonParse(text) ==
    IF Len(text) = 1 /\ IsLiteral(text[1])
    THEN [ok |-> TRUE,
          kind |-> IF ValueOf(text[1]) = JNull THEN "null" ELSE "scalar",
          fields |-> NoFields]
    ELSE IF Len(text) >= 2 /\ text[1] = "{" /\ text[Len(text)] = "}"
    THEN IF Len(text) = 2
         THEN [ok |-> TRUE, kind |-> "object", fields |-> NoFields]
         ELSE ParseMembers(SubSeq(text, 2, Len(text) - 1), NoFields)
    ELSE ParseError

RECURSIVE WriteMembers(_, _)
WriteMembers(obj, fs) ==
    IF fs = {} THEN << >>
    ELSE LET f == CHOOSE g \in fs : TRUE
             rest == WriteMembers(obj, fs \ {f})
         IN <<KeyOf(f), ":", LiteralOf(obj[f])>> \o
            (IF rest = << >> THEN << >> ELSE <<",">> \o rest)

\* the text of a score object: a field that is undefined is left out
JsonText(obj) ==
    <<"{">> \o WriteMembers(obj, {f \in Fields : obj[f] # JUndef}) \o <<"}">>

\* JavaScript truthiness
Truthy(v) ==
    CASE v.k = "num" -> v.x # 0
      [] v.k = "str" -> v.s # ""
      [] v.k = "bool" -> v.x = 1
      [] OTHER -> FALSE

\* JavaScript ToNumber
ToNumber(v) ==
    CASE v.k = "num" -> v
      [] v.k = "null" -> JNum(0)
      [] v.k = "bool" -> JNum(10 * v.x)
      [] v.k = "str" -> (IF v.s = "" THEN JNum(0)
                         ELSE IF v.s = "7" THEN JNum(70) ELSE JNaN)
      [] OTHER -> JNaN

\* Math.max(a, v) and Math.min(a, v) for a number a, in tenths
MathMax(a, v) ==
    LET n == ToNumber(v) IN IF n.k = "nan" THEN JNaN ELSE JNum(Max(a, n.x))
MathMin(a, v) ==
    LET n == ToNumber(v) IN IF n.k = "nan" THEN JNaN ELSE JNum(Min(a, n.x))

Five == JNum(50)

SanitizeClampFirst(v) ==
    LET c == MathMin(100, MathMax(10, v)) IN IF Truthy(c) THEN c ELSE Five

\* Math.min(10, Math.max(1, scores.field || 5))
Sanitize(v) == MathMin(100, MathMax(10, IF Truthy(v) THEN v ELSE Five))

DefaultScores == [f \in Fields |-> Five]

\* the try block around JSON.parse in getEvaluationScores: a text that does
\* not parse, or that parses to null (reading a field of null throws),
\* gives the default scores
ScoresFromText(text) ==
    LET p == JsonParse(text)
    IN IF ~p.ok \/ p.kind = "null"
       THEN DefaultScores
       ELSE [f \in Fields |-> Sanitize(p.fields[f])]

GuidanceEmpty == <<"Start speaking to receive guidance on your communication style.">>
GuidanceUnable == <<"Unable to generate guidance at this time.">>
GuidanceBlank ==
    <<"Keep up the good work! Continue being friendly, professional, and helpful.">>
VisualUnable == <<"Unable to analyze visual appearance at this time.">>
VisualBlank ==
    <<"Your visual presentation looks professional. Keep up the good work!">>

\* what a reducer hands back: a text (guidance, visual) or a score object
TextResult(t) == [kind |-> "text", text |-> t, scores |-> DefaultScores]
ScoresResult(sc) == [kind |-> "scores", text |-> << >>, scores |-> sc]
NoResult == [kind |-> "none", text |-> << >>, scores |-> DefaultScores]

IdleReduction ==
    [pc |-> "idle", text |-> << >>, n |-> 0, result |-> NoResult,
     invoked |-> 0, onEmpty |-> FALSE]

\* the value returned for an empty history, without any pipeline call
EmptyDefault(fn) ==
    IF fn = "guidance" THEN TextResult(GuidanceEmpty) ELSE ScoresResult(DefaultScores)

SameDefault(fn) ==
    CASE fn = "guidance" -> TextResult(GuidanceEmpty)
      [] fn = "scores" -> ScoresResult(DefaultScores)
      [] fn = "visual" -> TextResult(VisualUnable)

\* the value returned when start() hands back no outputStream
NoStreamDefault(fn) ==
    CASE fn = "guidance" -> TextResult(GuidanceUnable)
      [] fn = "scores" -> ScoresResult(DefaultScores)
      [] fn = "visual" -> TextResult(VisualUnable)

\* the value returned by the outer catch block
ErrorDefault(fn) == NoStreamDefault(fn)

Rethrown(r, fn) == [r EXCEPT !.pc = "threw", !.n = 0, !.result = NoResult]

\* the outer try/catch of a reducer: whatever is thrown inside ends the
\* reduction with the fallback value
Caught(r, fn) ==
    [r EXCEPT !.pc = "returned", !.n = 0, !.result = ErrorDefault(fn)]

ShortCircuitNever(fn, h) == FALSE

\* if (transcriptHistory.length === 0) return <default>; the visual reducer
\* has no such test
ShortCircuit(fn, h) == fn # "visual" /\ h = << >>

\* what a reducer returns once its stream has ended
Finished(r, fn) ==
    [r EXCEPT !.pc = "returned", !.n = 0,
              !.result = CASE fn = "guidance" ->
                                TextResult(IF r.text # << >> THEN r.text ELSE GuidanceBlank)
                           [] fn = "visual" ->
                                TextResult(IF r.text # << >> THEN r.text ELSE VisualBlank)
                           [] fn = "scores" ->
                                ScoresResult(IF r.text # << >> THEN ScoresFromText(r.text)
                                             ELSE DefaultScores)]

IsTerminalNever(ch) == FALSE

\* if (result?.done === true) break, the last statement of the loop body
IsTerminal(ch) == ch.done

AccumulateInFront(fn, text, ch) ==
    IF ch.kind = "content" /\ ch.content # << >> THEN ch.content \o text
    ELSE IF ch.kind = "direct" /\ fn = "scores" /\ ch.content # << >>
    THEN ch.content \o text
    ELSE text

\* A chunk of an output stream is [kind, content, done]:
\*   "null"    : a null or undefined result
\*   "content" : processResponse hands the Content handler a response
\*   "other"   : processResponse hands the default handler something else
\*   "direct"  : no processResponse, the text sits in result.data.content
\*   "throws"  : processResponse throws
\* the text after the chunk; only getEvaluationScores reads data.content
Accumulate(fn, text, ch) ==
    IF ch.kind = "content" /\ ch.content # << >> THEN text \o ch.content
    ELSE IF ch.kind = "direct" /\ fn = "scores" /\ ch.content # << >>
    THEN text \o ch.content
    ELSE text

\* a reducer from its call to its first suspension.  start is what
\* activeGraph.start does: "throws", "noStream" or "stream".
Called(fn, h, start) ==
    IF ShortCircuit(fn, h)
    THEN [IdleReduction EXCEPT !.pc = "returned", !.result = EmptyDefault(fn),
                               !.onEmpty = (h = << >>)]
    ELSE LET r == [IdleReduction EXCEPT !.invoked = 1, !.onEmpty = (h = << >>)]
         IN CASE start = "throws" -> Caught(r, fn)
              [] start = "noStream" ->
                    [r EXCEPT !.pc = "returned", !.result = NoStreamDefault(fn)]
              [] start = "stream" -> [r EXCEPT !.pc = "stream"]

StartOutcomes == {"throws", "noStream", "stream"}

GraphOf(fn) == IF fn = "scores" THEN "evaluation" ELSE fn

\* the graph instances after a call of reducer fn
Fetched(gs, fn, h) ==
    IF ShortCircuit(fn, h) THEN gs ELSE [gs EXCEPT ![GraphOf(fn)] = TRUE]

\* red keeps a reduction that ran a pipeline until the next call of a
\* reducer
Forget(rs) ==
    [fn \in Fns |-> IF rs[fn].pc # "stream" /\ rs[fn].invoked = 1
                    THEN IdleReduction ELSE rs[fn]]

\* an exported reducer is called on its own, here while no other reduction
\* is in flight
CallReduce(fn, start) ==
    /\ Running
    /\ pt # "awaiting"
    /\ \A f \in Fns : red[f].pc # "stream"
    /\ red' = [Forget(red) EXCEPT ![fn] = Called(fn, transcriptHistory, start)]
    /\ consumed' = [f \in Fns |-> << >>]
    /\ graphs' = Fetched(graphs, fn, transcriptHistory)
    /\ UNCHANGED <<build, hubVars, gateVars, bufVars, sesVars, outVars, sdVars, pt, upstream, cycles, sent>>

\* processTranscript up to its await: addTranscript, then getGuidance() and
\* getEvaluationScores() are both called and Promise.all waits for them
ProcessTranscriptBegins(gStart, sStart) ==
    /\ pt # "awaiting"
    /\ \A f \in Fns : red[f].pc # "stream"
    /\ Len(appended) < MaxAppends
    /\ LET entry == NewEntry("Host", Len(appended) + 1, 0,
                             [userId |-> "u1", timestamp |-> 0])
           h == AddTranscript(transcriptHistory, entry)
       IN /\ transcriptHistory' = h
          /\ appended' = Append(appended, entry)
          /\ red' = [Forget(red) EXCEPT
                        !["guidance"] = Called("guidance", h, gStart),
                        !["scores"] = Called("scores", h, sStart)]
          /\ graphs' = Fetched(Fetched(graphs, "guidance", h), "scores", h)
    /\ pt' = "awaiting"
    /\ consumed' = [f \in Fns |-> << >>]

\* processTranscript called on its own
CallProcessTranscript(gStart, sStart) ==
    /\ Running
    /\ ProcessTranscriptBegins(gStart, sStart)
    /\ UNCHANGED <<build, hubVars, gateVars, sesVars, outVars, sdVars, upstream, cycles, sent>>

\* the evaluation_update of a cycle that resolved with guidance g and scores sc
UpdateEvent(s, g, sc) ==
    [Event("evaluation_update", s) EXCEPT !.guidance = g, !.scores = sc]

ProcessingError == <<"Processing error. Please continue speaking.">>

\* the evaluation_update of the catch block of the transcript callback
ErrorUpdateEvent(s) ==
    [Event("evaluation_update", s) EXCEPT !.guidance = ProcessingError,
                                          !.scores = DefaultScores,
                                          !.error = TRUE]

\* the pipeline faults met by the two reducers before their first suspension
StartFaults(gStart, sStart) ==
    {"pipeline" : x \in {st \in {gStart, sStart} : st # "stream"}}

\* client.onTranscriptData callback of client c, from the call to the await
\* of processTranscript
OnTranscriptDataBegins(c, gStart, sStart) ==
    /\ Running
    /\ c \in 1..Len(clients)
    /\ "transcript" \in clients[c].callbacks
    /\ clients[c].status = "joined"
    /\ cb = NoCallback
    /\ ProcessTranscriptBegins(gStart, sStart)
    /\ cb' = [client |-> c, streamId |-> clients[c].streamId,
              faults |-> StartFaults(gStart, sStart)]
    /\ UNCHANGED <<build, wsConnections, readyState, attached, gateVars, sesVars, outVars,
                   sdVars, upstream, cycles, sent>>

\* the callback resumes once processTranscript has settled.  Resolved: the
\* update is broadcast inside the try block.  Rejected, or a send of that
\* broadcast throws: the catch block broadcasts the error update, and a send
\* that throws there rejects the promise of the callback.  bad1 and bad2 are
\* the viewers whose send throws in the first and in the second broadcast.
OnTranscriptDataResumes(bad1, bad2) ==
    /\ Running
    /\ cb # NoCallback
    /\ pt \in {"resolved", "rejected"}
    /\ LET s == cb.streamId
           ev1 == UpdateEvent(s, red["guidance"].result.text,
                              red["scores"].result.scores)
           ev2 == ErrorUpdateEvent(s)
           tried == pt = "resolved"
           thrown1 == tried /\ BroadcastThrows(wsConnections, readyState, bad1)
           caught == ~tried \/ thrown1
           thrown2 == caught /\ BroadcastThrows(wsConnections, readyState, bad2)
           d1 == IF tried
                 THEN Broadcast(NothingDelivered, ev1, wsConnections, readyState, bad1)
                 ELSE NothingDelivered
           d2 == IF caught
                 THEN Broadcast(d1, ev2, wsConnections, readyState, bad2)
                 ELSE d1
       IN /\ emitted' = (IF tried THEN << ev1 >> ELSE << >>)
                        \o (IF caught THEN << ev2 >> ELSE << >>)
          /\ delivered' = d2
          /\ raised' = thrown2
          /\ handled' = Occurrence("transcript", s, cb.client, cb.client,
                                   cb.faults
                                   \cup {"send" : x \in {y \in {thrown1, thrown2} : y}}
                                   \cup {"rejected" : x \in {y \in {pt} : y = "rejected"}})
    /\ cb' = NoCallback
    /\ UNCHANGED <<build, wsConnections, readyState, attached, gateVars, redVars, bufVars,
                   sesVars, graphs, sdVars>>

\* the for-await loop of reducer fn takes the chunk ch from the stream
ConsumeChunk(fn, ch) ==
    /\ Running
    /\ red[fn].pc = "stream"
    /\ red[fn].n < MaxChunks
    /\ LET r == [red[fn] EXCEPT !.n = @ + 1]
       IN red' = [red EXCEPT ![fn] =
                    IF ch.kind = "throws" THEN Caught(r, fn)
                    ELSE LET r2 == [r EXCEPT !.text = Accumulate(fn, r.text, ch)]
                         IN IF IsTerminal(ch) THEN Finished(r2, fn) ELSE r2]
    /\ UNCHANGED <<build, hubVars, gateVars, bufVars, sesVars, outVars, graphs, sdVars,
                   pt, upstream, cycles, sent, consumed>>

\* the same step, with the chunk written to the history
ConsumeChunkRecorded(fn, ch) ==
    /\ Running
    /\ red[fn].pc = "stream"
    /\ red[fn].n < MaxChunks
    /\ LET r == [red[fn] EXCEPT !.n = @ + 1]
       IN red' = [red EXCEPT ![fn] =
                    IF ch.kind = "throws" THEN Caught(r, fn)
                    ELSE LET r2 == [r EXCEPT !.text = Accumulate(fn, r.text, ch)]
                         IN IF IsTerminal(ch) THEN Finished(r2, fn) ELSE r2]
    /\ consumed' = [consumed EXCEPT ![fn] = Append(@, ch)]
    /\ UNCHANGED <<build, hubVars, gateVars, bufVars, sesVars, outVars, graphs, sdVars,
                   pt, upstream, cycles, sent>>

\* the stream of reducer fn ends: exhausted ("ok") or its iterator throws
StreamEnds(fn, res) ==
    /\ Running
    /\ red[fn].pc = "stream"
    /\ red' = [red EXCEPT ![fn] =
                 IF res = "ok" THEN Finished(red[fn], fn) ELSE Caught(red[fn], fn)]
    /\ UNCHANGED <<build, hubVars, gateVars, bufVars, sesVars, outVars, graphs, sdVars,
                   pt, upstream, cycles, sent, consumed>>

ProcessTranscriptSettlesAtFirst ==
    /\ Running
    /\ pt = "awaiting"
    /\ red["guidance"].pc # "stream" \/ red["scores"].pc # "stream"
    /\ pt' = IF red["guidance"].pc = "threw" \/ red["scores"].pc = "threw"
             THEN "rejected" ELSE "resolved"
    /\ UNCHANGED <<build, hubVars, gateVars, bufVars, sesVars, outVars, graphs, sdVars,
                   red, upstream, cycles, sent, consumed>>

\* Promise.all settles once both reducers have: it rejects iff one of them
\* threw
ProcessTranscriptSettles ==
    /\ Running
    /\ pt = "awaiting"
    /\ red["guidance"].pc # "stream" /\ red["scores"].pc # "stream"
    /\ pt' = IF red["guidance"].pc = "threw" \/ red["scores"].pc = "threw"
             THEN "rejected" ELSE "resolved"
    /\ UNCHANGED <<build, hubVars, gateVars, bufVars, sesVars, outVars, graphs, sdVars,
                   red, upstream, cycles, sent, consumed>>

----------------------------------------------------------------------------
(* Visual Sampling Gate: the onVideoData callback *)

\* time passes
Tick(d) ==
    /\ Running
    /\ now + d <= StartTime + MaxElapsed
    /\ now' = now + d
    /\ UNCHANGED <<build, hubVars, redVars, bufVars, sesVars, outVars, graphs, sdVars, frames, analyses>>

GateOpenNoWait(nowv, last) == nowv >= ScreenshotInterval

GateOpenAlways(nowv, last) == TRUE

AcceptedUnmarked(cl, nowv) == cl

\* lastScreenshotTime = now, the first statement of an accepted frame
Accepted(cl, nowv) == [cl EXCEPT !.lastScreenshotTime = nowv]

\* if (now - lastScreenshotTime >= SCREENSHOT_INTERVAL)
GateOpen(nowv, last) == nowv - last >= ScreenshotInterval

\* client.onVideoData callback of client c, up to its first suspension (the
\* await of sharp): a frame that passes the gate moves lastScreenshotTime
\* and starts to be handled; any other frame is dropped.  A frame in
\* handling is [client, at, pc, faults]: faults are the stages that failed.
OnVideoData(c) ==
    /\ Running
    /\ c \in 1..Len(clients)
    /\ clients[c].status = "joined"
    /\ IF GateOpen(now, clients[c].lastScreenshotTime)
       THEN /\ Cardinality(frames) < MaxFrames
            /\ clients' = [clients EXCEPT ![c] = Accepted(@, now)]
            /\ frames' = frames \cup {[client |-> c, at |-> now, pc |-> "encode",
                                       faults |-> {}]}
       ELSE UNCHANGED <<clients, frames>>
    /\ UNCHANGED <<build, hubVars, redVars, bufVars, rtmsClients, outVars, graphs, sdVars, now, analyses>>

\* the stages of an accepted frame that have failed so far
Faulted(f, res, stage) ==
    [f EXCEPT !.faults = IF res = "err" THEN @ \cup {stage} ELSE @]

\* sharp(data).jpeg().toBuffer() settles: on a failure the raw data is kept;
\* either way fs.writeFile is called next
FrameEncoded(f, res) ==
    /\ Running
    /\ f \in frames
    /\ f.pc = "encode"
    /\ frames' = (frames \ {f}) \cup {[Faulted(f, res, "encode") EXCEPT !.pc = "write"]}
    /\ UNCHANGED <<build, hubVars, redVars, bufVars, sesVars, outVars, graphs, sdVars, now, analyses>>

FrameWrittenKeepsGoing(f, res) ==
    /\ Running
    /\ f \in frames
    /\ f.pc = "write"
    /\ frames' = (frames \ {f}) \cup {[Faulted(f, res, "write") EXCEPT !.pc = "analyse"]}
    /\ graphs' = [graphs EXCEPT !["visual"] = TRUE]
    /\ analyses' = analyses \cup
          {[streamId |-> clients[f.client].streamId, client |-> f.client, at |-> f.at]}
    /\ UNCHANGED <<build, hubVars, redVars, bufVars, sesVars, outVars, sdVars, now>>

\* fs.writeFile settles.  Rejected: the catch block logs and the frame is
\* dropped.  Resolved: processVisualEvaluation fetches the visual graph
\* instance and starts it.
FrameWritten(f, res) ==
    /\ Running
    /\ f \in frames
    /\ f.pc = "write"
    /\ IF res = "err"
       THEN /\ frames' = frames \ {f}
            /\ emitted' = << >>
            /\ delivered' = NothingDelivered
            /\ raised' = FALSE
            /\ handled' = Occurrence("frame", clients[f.client].streamId, f.client,
                                     f.client, Faulted(f, res, "write").faults)
            /\ UNCHANGED <<graphs, analyses>>
       ELSE /\ frames' = (frames \ {f}) \cup {[f EXCEPT !.pc = "analyse"]}
            /\ graphs' = [graphs EXCEPT !["visual"] = TRUE]
            /\ analyses' = analyses \cup
                  {[streamId |-> clients[f.client].streamId,
                    client |-> f.client, at |-> f.at]}
            /\ UNCHANGED outVars
    /\ UNCHANGED <<build, hubVars, redVars, bufVars, sesVars, sdVars, now>>

\* one chunk of the for-await loop of reducer fn
Step(r, fn, ch) ==
    IF ch.kind = "throws" THEN Caught(r, fn)
    ELSE LET r2 == [r EXCEPT !.text = Accumulate(fn, r.text, ch)]
         IN IF IsTerminal(ch) THEN Finished(r2, fn) ELSE r2

RECURSIVE Drain(_, _, _)
\* the for-await loop of reducer fn over the chunks chs of a stream that
\* then ends
Drain(r, fn, chs) ==
    IF r.pc # "stream" THEN r
    ELSE IF chs = << >> THEN Finished(r, fn)
    ELSE Drain(Step(r, fn, Head(chs)), fn, Tail(chs))

\* a reducer from its call to its return: start is what activeGraph.start
\* does, chs the chunks its stream yields
Reduce(fn, h, start, chs) == Drain(Called(fn, h, start), fn, chs)

\* TRUE iff the pipeline failed during the run: start() threw or handed back
\* no stream, or the loop met a chunk that throws
PipelineFailed(start, chs) ==
    \/ start # "stream"
    \/ \E i \in 1..Len(chs) :
          /\ chs[i].kind = "throws"
          /\ \A j \in 1..(i - 1) : ~chs[j].done

VisualEvent(s, text) ==
    [Event("visual_evaluation_update", s) EXCEPT !.visualFeedback = text]

\* processVisualEvaluation returns and visual_evaluation_update is broadcast,
\* inside the try block of the callback: a send that throws is caught and
\* logged.  run is what the visual pipeline did, bad the viewers whose send
\* throws.
FrameAnalysedWith(f, run, bad) ==
    /\ Running
    /\ f \in frames
    /\ f.pc = "analyse"
    /\ frames' = frames \ {f}
    /\ LET s == clients[f.client].streamId
           out == Reduce("visual", transcriptHistory, run.start, run.chunks)
           ev == VisualEvent(s, out.result.text)
           thrown == BroadcastThrows(wsConnections, readyState, bad)
       IN /\ emitted' = << ev >>
          /\ delivered' = Broadcast(NothingDelivered, ev, wsConnections, readyState, bad)
          /\ raised' = FALSE
          /\ handled' = Occurrence("frame", s, f.client, f.client,
                           f.faults
                           \cup {"pipeline" : x \in {y \in {run} :
                                               PipelineFailed(y.start, y.chunks)}}
                           \cup {"send" : x \in {y \in {thrown} : y}})
    /\ UNCHANGED <<build, hubVars, redVars, bufVars, sesVars, graphs, sdVars, now, analyses>>

\* what the visual pipeline does during one analysis
VisualRuns ==
    [start : StartOutcomes,
     chunks : {<< >>,
               << [kind |-> "content", content |-> <<"Pro">>, done |-> TRUE] >>,
               << [kind |-> "content", content |-> <<"Pro">>, done |-> FALSE],
                  [kind |-> "throws", content |-> << >>, done |-> FALSE] >>}]

FrameAnalysed(f) ==
    \E run \in VisualRuns, bad \in FailSets : FrameAnalysedWith(f, run, bad)

----------------------------------------------------------------------------
(* Transcript callbacks that overlap.  The media source calls the async    *)
(* onTranscriptData callback for every utterance and does not wait for the *)
(* promise it returns, so a callback can begin while earlier ones are      *)
(* suspended at their await of processTranscript.  A callback in flight is *)
(* [client, streamId, seq]: seq is its arrival number.                     *)

Arrived == Len(sent) + Cardinality(cycles)

\* the callback of client c from its call to the await of processTranscript:
\* addTranscript, then both reducers fetch their graph and start it
TranscriptArrives(c) ==
    /\ Running
    /\ c \in 1..Len(clients)
    /\ "transcript" \in clients[c].callbacks
    /\ clients[c].status = "joined"
    /\ LET entry == NewEntry("Host", Len(appended) + 1, 0,
                             [userId |-> "u1", timestamp |-> 0])
       IN /\ transcriptHistory' = AddTranscript(transcriptHistory, entry)
          /\ appended' = Append(appended, entry)
    /\ graphs' = [graphs EXCEPT !["guidance"] = TRUE, !["evaluation"] = TRUE]
    /\ cycles' = cycles \cup {[client |-> c, streamId |-> clients[c].streamId,
                                seq |-> Arrived + 1]}
    /\ UNCHANGED <<build, hubVars, gateVars, red, pt, upstream, consumed, sent,
                   sesVars, outVars, sdVars>>

\* what the two pipelines do during one cycle
CycleRuns ==
    [start : {"stream"},
     chunks : {<< >>,
               << [kind |-> "content", content |-> <<"Pro">>, done |-> TRUE] >>}]

\* processTranscript of the callback cy settles and the callback resumes:
\* the update is broadcast inside the try block, and after a send that
\* throws the catch block broadcasts the error update.  g and sc are what
\* the two pipelines did; the reducers read the history when they were
\* called, right after the append of the callback.  processTranscript
\* never rejects: both reducers catch what is thrown.
TranscriptCycleCompletes(cy, g, sc, bad1, bad2) ==
    /\ Running
    /\ cy \in cycles
    /\ LET s == cy.streamId
           h == << cy.seq >>
           ev1 == UpdateEvent(s, Reduce("guidance", h, g.start, g.chunks).result.text,
                              Reduce("scores", h, sc.start, sc.chunks).result.scores)
           ev2 == ErrorUpdateEvent(s)
           thrown1 == BroadcastThrows(wsConnections, readyState, bad1)
           thrown2 == thrown1 /\ BroadcastThrows(wsConnections, readyState, bad2)
           d1 == Broadcast(NothingDelivered, ev1, wsConnections, readyState, bad1)
           d2 == IF thrown1
                 THEN Broadcast(d1, ev2, wsConnections, readyState, bad2)
                 ELSE d1
       IN /\ emitted' = << ev1 >> \o (IF thrown1 THEN << ev2 >> ELSE << >>)
          /\ delivered' = d2
          /\ raised' = thrown2
          /\ handled' = Occurrence("transcript", s, cy.client, cy.client,
                                   {"send" : x \in {y \in {thrown1} : y}})
    /\ cycles' = cycles \ {cy}
    /\ sent' = Append(sent, [streamId |-> cy.streamId, seq |-> cy.seq])
    /\ UNCHANGED <<build, hubVars, gateVars, red, pt, upstream, consumed, bufVars,
                   sesVars, graphs, sdVars>>

----------------------------------------------------------------------------
(* Shutdown Orchestrator: shutdown() of index.js / index.ts / part_002,    *)
(* WebSocketHandler.cleanup and inworldService.cleanup.                    *)
(*                                                                         *)
(* A shutdown() invocation is a record [pc, iw]: pc is where the           *)
(* invocation is suspended, iw is where its cleanupInworld() call is       *)
(* suspended ("none" before the call, a graph name while that graph's      *)
(* stop() is awaited, "done" after it returned).  In part_002 the          *)
(* invocation can move on at a timeout while iw is still pending.          *)

Outcomes == {"ok", "err"}

Bump(e, k) == [e EXCEPT ![k] = @ + 1]

\* client.leave() for every registered client, each inside its own try
LeaveAll(cs, reg) ==
    [c \in 1..Len(cs) |->
        IF \E s \in Keys : reg[s] = c
        THEN [cs[c] EXCEPT !.status = "left"] ELSE cs[c]]

\* the leave loop of cleanup(): leave is invoked on every registered
\* client; a leave that throws (the clients registered under a key of
\* failing) is caught and logged, and the loop goes on
LeaveAllWith(cs, reg, failing) ==
    [c \in 1..Len(cs) |->
        IF \E s \in failing : reg[s] = c
        THEN [cs[c] EXCEPT !.status = "leaveFailed"] ELSE LeaveAll(cs, reg)[c]]

\* ws.close(): the close frame written to the socket, recorded among what
\* the viewer is sent so that its place after the message shows
CloseFrame == Stringify(Event("close", Undefined))

\* the viewer loop of cleanup(): if (ws.readyState === ws.OPEN) {
\* ws.send(server_shutdown); ws.close() }, up to the first send that throws
ShutdownSent(dl, conns, rs, bad) ==
    [v \in Viewers |->
        IF v \in SentTo(conns, rs, bad)
        THEN dl[v] \o << Stringify(Event("server_shutdown", Undefined)), CloseFrame >>
        ELSE dl[v]]

ClosedByShutdown(conns, rs, bad) ==
    [v \in Viewers |-> IF v \in SentTo(conns, rs, bad) THEN "closing" ELSE rs[v]]

\* the graphs after g, in the order cleanup() visits them, whose instance
\* is non-null
NextLive(gs, from) ==
    LET live == {i \in from..3 : gs[Graphs[i]]}
    IN IF live = {} THEN "done"
       ELSE Graphs[CHOOSE i \in live : \A j \in live : i <= j]

GraphIndex(g) == CHOOSE i \in 1..3 : Graphs[i] = g

\* part_002: if (isShuttingDown) return.  index.js and index.ts have no guard.
Guarded(flag) == build = "ts2" /\ flag

\* the catch block of shutdown(): index.js exits with 1, the others with 0
ExitAfterFailure == IF build = "js" THEN 1 ELSE 0

\* What shutdown() does once cleanupInworld() has returned (or, in
\* part_002, timed out).  index.js / index.ts: server.close(cb), then a
\* 1000 ms timer before process.exit(0).  part_002: a 100 ms delay first.
\* close is the outcome of the synchronous server.close call.
AfterInworldFrom(cs, i, e, close) ==
    IF build = "ts2"
    THEN [c |-> [cs EXCEPT ![i].pc = "delay"], e |-> e, x |-> NoExit]
    ELSE IF close = "err" /\ build = "js"
    THEN [c |-> cs, e |-> Bump(e, "serverClose"), x |-> ExitAfterFailure]
    ELSE [c |-> [cs EXCEPT ![i].pc = "exitTimer"],
          e |-> Bump(e, "serverClose"), x |-> NoExit]

AfterInworld(cs, i, close) == AfterInworldFrom(cs, i, effects, close)

\* cleanupInworld() from its start to its first suspension, followed by the
\* continuation of shutdown() when it returns without suspending.
\* e is the count of teardown effects when the call begins.
StartInworldFrom(i, cs, e, close) ==
    LET g == NextLive(graphs, 1)
        e1 == Bump(e, "pipelineTeardown")
    IN IF g = "done"
       THEN LET r == AfterInworldFrom([cs EXCEPT ![i].iw = "done"], i, e, close)
            IN /\ transcriptHistory' = ClearedHistory
               /\ appended' = << >>
               /\ calls' = r.c
               /\ effects' = Bump(r.e, "pipelineTeardown")
               /\ exitCode' = r.x
       ELSE /\ calls' = [cs EXCEPT ![i].iw = g, ![i].pc = "inworldWait"]
            /\ effects' = e1
            /\ UNCHANGED <<bufVars, exitCode>>

StartInworld(i, cs, close) == StartInworldFrom(i, cs, effects, close)

\* A signal, an uncaught exception or an unhandled rejection calls
\* shutdown().  The invocation runs WebSocketHandler.cleanup() up to the
\* await of wss.close: every open viewer is sent server_shutdown and
\* closed, the viewer set is cleared, every registered client is left, the
\* registry is cleared.  bad are the viewers whose send throws, failing the
\* registry keys whose client throws from leave(), close the outcome of
\* the server.close call.  A send that throws leaves the try block of
\* cleanup(): websocketHandler.js rethrows and shutdown() of index.js exits
\* from its catch block; part_000 logs and returns, and shutdown() goes on
\* to cleanupInworld().
ShutdownCallWith(bad, failing, close) ==
    /\ Running
    /\ Len(calls) < MaxCalls
    /\ IF Guarded(isShuttingDown)
       THEN /\ calls' = Append(calls, [pc |-> "returned", iw |-> "none"])
            /\ UNCHANGED <<sesVars, isShuttingDown, effects, wsConnections,
                           readyState, delivered, bufVars, exitCode>>
       ELSE LET thrown == BroadcastThrows(wsConnections, readyState, bad)
                cs == Append(calls, [pc |-> "wsWait", iw |-> "none"])
                e1 == Bump(effects, "viewerTeardown")
            IN /\ isShuttingDown' = (build = "ts2")
               /\ delivered' = ShutdownSent(NothingDelivered, wsConnections,
                                            readyState, bad)
               /\ readyState' = ClosedByShutdown(wsConnections, readyState, bad)
               /\ IF thrown
                  THEN /\ UNCHANGED <<wsConnections, sesVars>>
                       /\ IF build = "js"
                          THEN /\ calls' = cs
                               /\ effects' = e1
                               /\ exitCode' = ExitAfterFailure
                               /\ UNCHANGED bufVars
                          ELSE StartInworldFrom(Len(cs), cs, e1, close)
                  ELSE /\ wsConnections' = << >>
                       /\ clients' = LeaveAllWith(clients, rtmsClients, failing)
                       /\ rtmsClients' = [s \in Keys |-> NoClient]
                       /\ calls' = cs
                       /\ effects' = Bump(e1, "sessionTeardown")
                       /\ UNCHANGED <<bufVars, exitCode>>
    /\ UNCHANGED <<build, attached, cb, gateVars, redVars, emitted, raised, handled,
                   graphs>>

\* shutdown() with no viewer connected and no leave() that throws
ShutdownCall == ShutdownCallWith({}, {}, "ok")

\* the callback of wss.close runs, with or without an error.
\* websocketHandler.js rejects on an error and shutdown() of index.js then
\* exits from its catch block; part_000 resolves either way.
WsClosed(i, res, close) ==
    /\ Running
    /\ i \in 1..Len(calls)
    /\ calls[i].pc = "wsWait"
    /\ IF res = "err" /\ build = "js"
       THEN /\ exitCode' = ExitAfterFailure
            /\ UNCHANGED <<bufVars, calls, effects>>
       ELSE StartInworld(i, calls, close)
    /\ UNCHANGED <<build, hubVars, gateVars, redVars, sesVars, outVars, graphs, isShuttingDown>>

\* part_002: the 5000 ms timer raced against wsHandler.cleanup() fires
WsTimeout(i, close) ==
    /\ Running
    /\ build = "ts2"
    /\ i \in 1..Len(calls)
    /\ calls[i].pc = "wsWait"
    /\ StartInworld(i, calls, close)
    /\ UNCHANGED <<build, hubVars, gateVars, redVars, sesVars, outVars, graphs, isShuttingDown>>

\* the stop() awaited by cleanup() of inworldService.js settles.  Resolved:
\* the instance is set to null and the next one is stopped, or the history
\* is cleared when none is left.  Rejected: the catch block logs, nothing
\* else is stopped and the history is not cleared.
StopSettled(i, res, close) ==
    /\ Running
    /\ i \in 1..Len(calls)
    /\ calls[i].iw \in GraphNames
    /\ LET g == calls[i].iw
           gs == IF res = "ok" THEN [graphs EXCEPT ![g] = FALSE] ELSE graphs
           nxt == IF res = "ok" THEN NextLive(gs, GraphIndex(g) + 1) ELSE "done"
           cs == [calls EXCEPT ![i].iw = nxt]
           r == IF nxt = "done" /\ calls[i].pc = "inworldWait"
                THEN AfterInworld(cs, i, close)
                ELSE [c |-> cs, e |-> effects, x |-> NoExit]
       IN /\ graphs' = gs
          /\ IF res = "ok" /\ nxt = "done"
             THEN transcriptHistory' = ClearedHistory /\ appended' = << >>
             ELSE UNCHANGED bufVars
          /\ calls' = r.c
          /\ effects' = r.e
          /\ exitCode' = r.x
    /\ UNCHANGED <<build, hubVars, gateVars, redVars, sesVars, outVars, isShuttingDown>>

\* part_002: the 5000 ms timer raced against cleanupInworld() fires
InworldTimeout(i) ==
    /\ Running
    /\ build = "ts2"
    /\ i \in 1..Len(calls)
    /\ calls[i].pc = "inworldWait"
    /\ calls' = [calls EXCEPT ![i].pc = "delay"]
    /\ UNCHANGED <<build, hubVars, gateVars, redVars, bufVars, sesVars, outVars, graphs, isShuttingDown,
                   effects, exitCode>>

\* part_002: the 100 ms delay ends and server.close is called inside a
\* promise executor; a throw there rejects the race and reaches the outer
\* catch block, which exits.
DelayDone(i, close) ==
    /\ Running
    /\ i \in 1..Len(calls)
    /\ calls[i].pc = "delay"
    /\ effects' = Bump(effects, "serverClose")
    /\ IF close = "err"
       THEN exitCode' = ExitAfterFailure /\ UNCHANGED calls
       ELSE calls' = [calls EXCEPT ![i].pc = "httpWait"] /\ UNCHANGED exitCode
    /\ UNCHANGED <<build, hubVars, gateVars, redVars, bufVars, sesVars, outVars, graphs, isShuttingDown>>

\* part_002: the callback of server.close runs or the 2000 ms timer fires;
\* stopInworldRuntime() is called
HttpClosed(i) ==
    /\ Running
    /\ i \in 1..Len(calls)
    /\ calls[i].pc = "httpWait"
    /\ calls' = [calls EXCEPT ![i].pc = "runtimeWait"]
    /\ UNCHANGED <<build, hubVars, gateVars, redVars, bufVars, sesVars, outVars, graphs, isShuttingDown,
                   effects, exitCode>>

\* part_002: stopInworldRuntime() settles or its 5000 ms timer fires:
\* process.exit(0)
RuntimeStopped(i) ==
    /\ Running
    /\ i \in 1..Len(calls)
    /\ calls[i].pc = "runtimeWait"
    /\ exitCode' = 0
    /\ UNCHANGED <<build, hubVars, gateVars, redVars, bufVars, sesVars, outVars, graphs, isShuttingDown, calls,
                   effects>>

\* index.js / index.ts: the 1000 ms timer set at the end of shutdown() fires:
\* process.exit(0)
ExitTimer(i) ==
    /\ Running
    /\ i \in 1..Len(calls)
    /\ calls[i].pc = "exitTimer"
    /\ exitCode' = 0
    /\ UNCHANGED <<build, hubVars, gateVars, redVars, bufVars, sesVars, outVars, graphs, isShuttingDown, calls,
                   effects>>

----------------------------------------------------------------------------
(* The state after construction and the specifications *)

vars == <<build, transcriptHistory, appended, rtmsClients, clients, emitted,
          raised, delivered, handled, wsConnections, readyState, attached, cb, graphs, isShuttingDown, calls, effects, exitCode, now, frames,
          analyses, red, pt, upstream, consumed, cycles, sent>>

InitBase ==
    /\ build \in Builds
    /\ transcriptHistory = << >>
    /\ appended = << >>
    /\ rtmsClients = [s \in Keys |-> NoClient]
    /\ clients = << >>
    /\ emitted = << >>
    /\ raised = FALSE
    /\ delivered = NothingDelivered
    /\ handled = NothingHandled
    /\ wsConnections = << >>
    /\ readyState = [v \in Viewers |-> "none"]
    /\ attached = {}
    /\ cb = NoCallback
    /\ graphs = [g \in GraphNames |-> FALSE]
    /\ isShuttingDown = FALSE
    /\ calls = << >>
    /\ effects = [k \in {"viewerTeardown", "sessionTeardown", "pipelineTeardown",
                         "serverClose"} |-> 0]
    /\ exitCode = NoExit
    /\ now = StartTime
    /\ frames = {}
    /\ analyses = {}
    /\ red = [fn \in Fns |-> IdleReduction]
    /\ pt = "idle"
    /\ consumed = [fn \in Fns |-> << >>]
    /\ cycles = {}
    /\ sent = << >>

Init == InitBase /\ upstream = NoFields

\* the steps by which a shutdown() invocation and its cleanups proceed
ShutdownStep ==
    \E i \in 1..MaxCalls, res \in Outcomes, close \in Outcomes :
        \/ WsClosed(i, res, close)
        \/ WsTimeout(i, close)
        \/ StopSettled(i, res, close)
        \/ InworldTimeout(i)
        \/ DelayDone(i, close)
        \/ HttpClosed(i)
        \/ RuntimeStopped(i)
        \/ ExitTimer(i)

(* Spec: the Transcript Buffer through a whole meeting.  One stream id,    *)
(* up to MaxAppends utterances between two clears, and one shutdown()      *)
(* invocation; SpecSession and SpecShutdown widen the other two.           *)
Next ==
    \/ Started("s1")
    \/ \E leave \in {"ok", "throws"} : Stopped("s1", leave)
    \/ OtherEvent
    \/ ClearHistoryMsg
    \/ \E c \in 1..MaxClients : OnTranscriptData(c)
    \/ calls = << >> /\ ShutdownCall
    \/ ShutdownStep

Spec == Init /\ [][Next]_vars

(* SpecSession: the Stream Session Registry.  Every stream id, absent ids  *)
(* included, a few utterances, one shutdown() invocation.                  *)
NextSession ==
    \/ \E s \in Keys : Started(s)
    \/ \E s \in Keys, leave \in {"ok", "throws"} : Stopped(s, leave)
    \/ OtherEvent
    \/ ClearHistoryMsg
    \/ \E c \in 1..MaxClients : Len(appended) < SessionAppends /\ OnTranscriptData(c)
    \/ calls = << >> /\ ShutdownCall
    \/ ShutdownStep

SpecSession == Init /\ [][NextSession]_vars

(* SpecShutdown: the Shutdown Orchestrator with re-entrant invocations.    *)
NextShutdown ==
    \/ Started("s1")
    \/ \E c \in 1..MaxClients : Len(appended) < ShutdownAppends /\ OnTranscriptData(c)
    \/ ShutdownCall
    \/ ShutdownStep

SpecShutdown == Init /\ [][NextShutdown]_vars

(* SpecHub: lifecycle events and viewers that come and go, with sends that *)
(* may throw.                                                              *)
NextHub ==
    \/ \E s \in Keys : Len(clients) < HubClients /\ Started(s)
    \/ \E s \in Keys, leave \in {"ok", "throws"} : Stopped(s, leave)
    \/ OtherEvent
    \/ \E c \in 1..MaxClients : Len(appended) < HubAppends /\ OnTranscriptData(c)
    \/ \E v \in Viewers : ViewerConnects(v)
    \/ \E v \in Viewers : SocketMoves(v)
    \/ \E v \in Viewers : ViewerGone(v)

\* index.ts and part_002 run the same handler, part_000
InitHub == Init /\ build \in {"js", "ts2"}

SpecHub == InitHub /\ [][NextHub]_vars

(* SpecViewers: the viewer set through connections, messages, closes and  *)
(* the broadcasts of one session.                                          *)
NextViewers ==
    \/ clients = << >> /\ Started("s1")
    \/ \E leave \in {"ok", "throws"} : Stopped("s1", leave)
    \/ \E c \in 1..MaxClients : Len(appended) < HubAppends /\ OnTranscriptData(c)
    \/ \E v \in Viewers : ViewerConnects(v)
    \/ \E v \in Viewers : SocketMoves(v)
    \/ \E v \in Viewers : ViewerGone(v)
    \/ \E v \in Viewers, m \in ViewerMessages : OnViewerMessage(v, m)

SpecViewers == InitHub /\ [][NextViewers]_vars

(* SpecTeardown: shutdown() with viewers connected and sessions live,     *)
(* sends and leaves that may throw.                                        *)
NextTeardown ==
    \/ \E s \in StreamIds : Len(clients) < TeardownClients /\ Started(s)
    \/ \E c \in 1..MaxClients : Len(appended) < TeardownAppends /\ OnTranscriptData(c)
    \/ \E v \in Viewers : ViewerConnects(v)
    \/ \E v \in Viewers : SocketMoves(v)
    \/ \E bad \in FailSets, failing \in SUBSET StreamIds, close \in Outcomes :
          calls = << >> /\ ShutdownCallWith(bad, failing, close)
    \/ ShutdownStep

SpecTeardown == Init /\ [][NextTeardown]_vars

(* SpecGate: the Visual Sampling Gate under a running clock; no viewers,   *)
(* and no stage of a frame fails (SpecFrames follows the failures).        *)
NextGate ==
    \/ Len(clients) < GateClients /\ Started("s1")
    \/ Stopped("s1", "ok")
    \/ \E d \in TickSteps : Tick(d)
    \/ \E c \in 1..MaxClients : OnVideoData(c)
    \/ \E f \in frames :
          \/ FrameEncoded(f, "ok")
          \/ FrameWritten(f, "ok")
          \/ FrameAnalysedWith(f, [start |-> "noStream", chunks |-> << >>], {})

\* The callback is the same text in websocketHandler.js (228-277) and in
\* part_000 (266-320), and no absent stream id occurs here: one build is
\* followed.
InitGate == Init /\ build = "ts2"

SpecGate == InitGate /\ [][NextGate]_vars

(* SpecReduce: the Streaming Result Reducer against every behaviour of a   *)
(* pipeline: start throws, hands back no stream or a stream; the stream    *)
(* yields chunks of every kind, ends, or throws.                           *)
Pro == <<"Pro">>
Fess == <<"fess">>
Ional == <<"ional.">>
ScoreHead == <<"{", "\"professionalism\"", ":", "15">>
ScoreTail == <<"}">>

ContentsOf(fn) ==
    CASE fn = "guidance" -> {<< >>, Pro, Fess, Ional}
      [] fn = "scores" -> {<< >>, ScoreHead, ScoreTail}
      [] fn = "visual" -> {<< >>, Pro}

ChunksOf(fn) ==
    [kind : {"content", "direct"}, content : ContentsOf(fn), done : BOOLEAN]
    \cup [kind : {"other"}, content : {<< >>}, done : BOOLEAN]
    \cup [kind : {"null", "throws"}, content : {<< >>}, done : {FALSE}]

NextReduce ==
    \/ \E fn \in Fns, start \in StartOutcomes : CallReduce(fn, start)
    \/ \E g \in StartOutcomes, sc \in StartOutcomes :
          Len(appended) < ReduceAppends /\ CallProcessTranscript(g, sc)
    \/ ClearHistoryMsg
    \/ \E fn \in Fns : \E ch \in ChunksOf(fn) : ConsumeChunk(fn, ch)
    \/ \E fn \in Fns, res \in Outcomes : StreamEnds(fn, res)
    \/ ProcessTranscriptSettles

\* inworldService.js is the same file in every build: one build is followed
InitReduce == Init /\ build = "ts2"

SpecReduce == InitReduce /\ [][NextReduce]_vars

(* SpecGuidance: getGuidance alone against every behaviour of its         *)
(* pipeline, on an empty and on a non-empty buffer.                        *)
NextGuidance ==
    \/ \E start \in StartOutcomes : CallReduce("guidance", start)
    \/ \E g \in StartOutcomes :
          Len(appended) < ReduceAppends /\ CallProcessTranscript(g, "noStream")
    \/ ClearHistoryMsg
    \/ \E ch \in ChunksOf("guidance") : ConsumeChunk("guidance", ch)
    \/ \E res \in Outcomes : StreamEnds("guidance", res)
    \/ ProcessTranscriptSettles

SpecGuidance == InitReduce /\ [][NextGuidance]_vars

(* SpecAppend: addTranscript called with every kind of metadata while the *)
(* clock runs, and through the transcript callback.                        *)
NextAppend ==
    \/ \E sp \in Speakers, tx \in 1..2, md \in Metadatas :
          Len(appended) < AppendCalls /\ AddTranscriptCall(sp, tx, md)
    \/ \E d \in TickSteps : Tick(d)
    \/ clients = << >> /\ Started("s1")
    \/ \E c \in 1..MaxClients : Len(appended) < AppendCalls /\ OnTranscriptData(c)
    \/ ClearHistoryMsg

SpecAppend == InitReduce /\ [][NextAppend]_vars

(* SpecScores: getEvaluationScores against a scoring pipeline that writes  *)
(* out the object `upstream`, whole or in two halves.                      *)
UpstreamValues ==
    {JUndef, JNull, JNum(0), JNum(-30), JNum(70), JNum(150), JNum(75),
     JStr("high"), JStr(""), JBool(TRUE)}

Halves(t) ==
    LET k == Len(t) \div 2
    IN {t, SubSeq(t, 1, k), SubSeq(t, k + 1, Len(t))}

NextScores ==
    \/ Len(appended) < ReduceAppends /\ CallProcessTranscript("noStream", "stream")
    \/ \E kind \in {"content", "direct"}, done \in BOOLEAN :
          \E t \in Halves(JsonText(upstream)) :
             ConsumeChunk("scores", [kind |-> kind, content |-> t, done |-> done])
    \/ StreamEnds("scores", "ok")
    \/ ProcessTranscriptSettles

InitScores == InitBase /\ build = "ts2" /\ upstream \in [Fields -> UpstreamValues]

SpecScores == InitScores /\ [][NextScores]_vars

(* SpecChunks: one reduction at a time, with the chunks it consumes        *)
(* written to the history.                                                 *)
RecordedChunksOf(fn) ==
    [kind : {"content"}, content : ContentsOf(fn), done : BOOLEAN]
    \cup [kind : {"direct"}, content : {ScoreTail}, done : BOOLEAN]
    \cup [kind : {"other"}, content : {<< >>}, done : BOOLEAN]
    \cup [kind : {"null", "throws"}, content : {<< >>}, done : {FALSE}]

NextChunks ==
    \/ \E fn \in Fns : CallReduce(fn, "stream")
    \/ \E st \in {<<"stream", "noStream">>, <<"noStream", "stream">>} :
          Len(appended) < ReduceAppends /\ CallProcessTranscript(st[1], st[2])
    \/ \E fn \in Fns : \E ch \in RecordedChunksOf(fn) : ConsumeChunkRecorded(fn, ch)
    \/ \E fn \in Fns, res \in Outcomes : StreamEnds(fn, res)
    \/ ProcessTranscriptSettles

SpecChunks == InitReduce /\ [][NextChunks]_vars

(* SpecCycle: one evaluation cycle, from the transcript callback to the    *)
(* evaluation_update, against every behaviour of the two pipelines and     *)
(* with sends that may throw.                                              *)
CycleChunksOf(fn) ==
    [kind : {"content"},
     content : IF fn = "guidance" THEN {Pro} ELSE {ScoreHead, ScoreTail},
     done : BOOLEAN]
    \cup [kind : {"throws"}, content : {<< >>}, done : {FALSE}]

NextCycle ==
    \/ Len(clients) < CycleClients /\ Started("s1")
    \/ \E v \in Viewers : ViewerConnects(v)
    \/ \E v \in Viewers : SocketMoves(v)
    \/ \E c \in 1..MaxClients, g \in StartOutcomes, sc \in StartOutcomes :
          Len(appended) < ReduceAppends /\ OnTranscriptDataBegins(c, g, sc)
    \/ \E fn \in {"guidance", "scores"} : \E ch \in CycleChunksOf(fn) :
          ConsumeChunkRecorded(fn, ch)
    \/ \E fn \in {"guidance", "scores"}, res \in Outcomes : StreamEnds(fn, res)
    \/ ProcessTranscriptSettles
    \/ \E bad1 \in FailSets, bad2 \in FailSets : OnTranscriptDataResumes(bad1, bad2)

SpecCycle == InitReduce /\ [][NextCycle]_vars

(* SpecJoin: the evaluation cycles of one session with one viewer, to      *)
(* follow how the two reductions of a cycle interleave and where the       *)
(* update is broadcast.                                                    *)
NextJoin ==
    \/ clients = << >> /\ Started("s1")
    \/ ViewerConnects("v1")
    \/ \E c \in 1..MaxClients, g \in StartOutcomes, sc \in StartOutcomes :
          Len(appended) < ReduceAppends /\ OnTranscriptDataBegins(c, g, sc)
    \/ \E fn \in {"guidance", "scores"} : \E ch \in CycleChunksOf(fn) :
          ConsumeChunkRecorded(fn, ch)
    \/ \E fn \in {"guidance", "scores"}, res \in Outcomes : StreamEnds(fn, res)
    \/ ProcessTranscriptSettles
    \/ \E bad \in FailSets : OnTranscriptDataResumes(bad, {})

SpecJoin == InitReduce /\ [][NextJoin]_vars

(* SpecOverlap: the transcript callbacks of one session, each beginning   *)
(* while earlier ones may still await their pipelines.                     *)
NextOverlap ==
    \/ clients = << >> /\ Started("s1")
    \/ \E v \in Viewers : ViewerConnects(v)
    \/ \E c \in 1..MaxClients : Arrived < OverlapCycles /\ TranscriptArrives(c)
    \/ \E cy \in cycles, g \in CycleRuns, sc \in CycleRuns, bad \in FailSets :
          TranscriptCycleCompletes(cy, g, sc, bad, bad)

SpecOverlap == InitGate /\ [][NextOverlap]_vars

(* SpecInFlight: one session that is stopped while a transcript callback  *)
(* or an accepted frame of it may still be in handling.                    *)
NextInFlight ==
    \/ clients = << >> /\ Started("s1")
    \/ Stopped("s1", "ok")
    \/ \E v \in Viewers : ViewerConnects(v)
    \/ \E c \in 1..MaxClients : OnVideoData(c)
    \/ \E f \in frames :
          \/ FrameEncoded(f, "ok")
          \/ FrameWritten(f, "ok")
          \/ FrameAnalysedWith(f, [start |-> "noStream", chunks |-> << >>], {})
    \/ \E c \in 1..MaxClients :
          Len(appended) < ReduceAppends /\ OnTranscriptDataBegins(c, "noStream", "stream")
    \/ \E ch \in CycleChunksOf("scores") : ConsumeChunkRecorded("scores", ch)
    \/ StreamEnds("scores", "ok")
    \/ ProcessTranscriptSettles
    \/ OnTranscriptDataResumes({}, {})

SpecInFlight == InitGate /\ [][NextInFlight]_vars

(* SpecFrames: accepted frames through encode, write, analysis and         *)
(* broadcast, each stage failing or not, with sends that may throw.  The   *)
(* clock stands still: each client has one frame accepted.                 *)
NextFrames ==
    \/ Len(clients) < CycleClients /\ Started("s1")
    \/ \E v \in Viewers : ViewerConnects(v)
    \/ \E v \in Viewers : SocketMoves(v)
    \/ \E c \in 1..MaxClients : OnVideoData(c)
    \/ \E f \in frames, res \in Outcomes :
          \/ FrameEncoded(f, res)
          \/ FrameWritten(f, res)
          \/ FrameAnalysed(f)

SpecFrames == InitGate /\ [][NextFrames]_vars

----------------------------------------------------------------------------
(* Claims *)

\* C1: in every reachable state the shared transcript buffer holds at most
\* 50 entries.
C1_HistoryBounded == Len(transcriptHistory) <= HistoryCap

\* the buffer is full and at least one entry has been evicted
C1_Witness == Len(transcriptHistory) = HistoryCap /\ Len(appended) > HistoryCap

\* C2: the buffer holds the last min(k, 50) entries appended since the most
\* recent clear, k being the number of appends since that clear, in the
\* order in which they were appended.
C2_RetainsMostRecent ==
    LET k == Len(appended)
        n == Len(transcriptHistory)
    IN /\ n = Min(k, HistoryCap)
       /\ \A i \in 1..n : transcriptHistory[i] = appended[k - n + i]

\* two entries have been evicted from the front after 52 appends
C2_Witness ==
    /\ Len(appended) = HistoryCap + 2
    /\ transcriptHistory[1].text = 3
    /\ transcriptHistory[HistoryCap].text = HistoryCap + 2

LiveClients(s) ==
    {c \in 1..Len(clients) : clients[c].streamId = s /\ clients[c].status = "joined"}

\* C3: for each streamId at most one media-source client has joined and has
\* not yet been left.
C3_OneLiveSessionPerStream ==
    \A s \in StreamIds : Cardinality(LiveClients(s)) <= 1

\* C6 as stated: for any one streamId, no two visual-analysis invocations
\* are triggered by frames that arrive less than 5000 ms apart.
C6_OneAnalysisPerIntervalPerStream ==
    \A a, b \in analyses :
        (a # b /\ a.streamId = b.streamId) =>
            (a.at - b.at >= ScreenshotInterval \/ b.at - a.at >= ScreenshotInterval)

\* C6 as amended: for any one media-source client (session), no two
\* visual-analysis invocations are triggered by frames that arrive at its
\* callback less than 5000 ms apart.
C6_OneAnalysisPerIntervalPerClient ==
    \A a, b \in analyses :
        (a # b /\ a.client = b.client) =>
            (a.at - b.at >= ScreenshotInterval \/ b.at - a.at >= ScreenshotInterval)

\* a client whose frames 1000 ms and 6000 ms after an analysed frame arrived:
\* the first was dropped, the second was analysed
C6_Witness ==
    \E a, b \in analyses :
        /\ a.client = b.client
        /\ b.at = a.at + 6000
        /\ \A x \in analyses : x.client = a.client => x.at \notin (a.at + 1)..(b.at - 1)

\* the original statement also fails without any duplicate start: a stream
\* that is stopped and started again gets a client whose gate starts open
C6_RestartCase ==
    \E a, b \in analyses :
        /\ a.streamId = b.streamId
        /\ a.client < b.client
        /\ clients[a.client].status = "left"
        /\ b.at - a.at < ScreenshotInterval
        /\ Cardinality(LiveClients(a.streamId)) <= 1

\* C4: a second shutdown() call while the first is in progress is a no-op:
\* viewer teardown, session teardown, pipeline teardown and server close are
\* each performed at most once.
C4_TeardownOnce == \A k \in DOMAIN effects : effects[k] <= 1

\* with the isShuttingDown guard of part_002 every teardown is performed once
C4_HoldsInPart002 == build = "ts2" => C4_TeardownOnce

\* C5: once shutdown() has started the process exits, and exits with status
\* 0, whatever the teardown steps do.  Stated here as: no exit status other
\* than 0 is ever passed to process.exit.
C5_ExitsWithZero == exitCode \in {NoExit, 0}

C5_HoldsInPart002 == build = "ts2" => C5_ExitsWithZero

\* The timers of part_002 fire and pending callbacks run.
SpecShutdownFair == SpecShutdown /\ WF_vars(ShutdownStep)

\* with the timeouts of part_002 a started shutdown always reaches the exit
C5_Part002Exits == (build = "ts2" /\ calls # << >>) ~> (exitCode = 0)

\* C7: when the accumulated score text is the object the pipeline wrote
\* and it parses, each field whose upstream value is missing, null or an
\* integer is 5 if that value is missing, null or 0, and otherwise the
\* integer clamped into [1,10], whatever the other two fields hold.
C7_IsIntegerOrAbsent(v) ==
    v \in {JUndef, JNull} \/ (v.k = "num" /\ v.x % 10 = 0)

C7_Expected(v) ==
    IF v \in {JUndef, JNull, JNum(0)} THEN JNum(50)
    ELSE IF v.x < 10 THEN JNum(10)
    ELSE IF v.x > 100 THEN JNum(100) ELSE v

C7_DefaultThenClamp ==
    (red["scores"].pc = "returned" /\ red["scores"].text = JsonText(upstream))
    => \A f \in Fields :
          C7_IsIntegerOrAbsent(upstream[f])
          => red["scores"].result.scores[f] = C7_Expected(upstream[f])

\* the pipeline wrote {0, 15, 7} and the reducer returned {5, 10, 7}
C7_Witness ==
    /\ upstream = [professionalism |-> JNum(0), friendliness |-> JNum(150),
                   helpfulness |-> JNum(70)]
    /\ red["scores"].pc = "returned"
    /\ red["scores"].text = JsonText(upstream)
    /\ red["scores"].result =
          ScoresResult([professionalism |-> JNum(50), friendliness |-> JNum(100),
                        helpfulness |-> JNum(70)])

\* C8: every scores object the scoring reducer returns, and so every one
\* processTranscript hands on to be broadcast, has its three fields each an
\* integer in [1,10].
C8_IsScore(v) == v.k = "num" /\ v.x % 10 = 0 /\ v.x >= 10 /\ v.x <= 100

C8_ScoresAreIntegersInRange ==
    red["scores"].pc = "returned"
    => \A f \in Fields : C8_IsScore(red["scores"].result.scores[f])

\* C9: no reducer ever ends by throwing, and processTranscript is never
\* rejected, whatever the pipelines do.
C9_NoFailureReachesCaller ==
    /\ \A fn \in Fns : red[fn].pc # "threw"
    /\ pt # "rejected"

\* both reducers of a processTranscript have returned their fallback after
\* reading some text from their pipeline, and processTranscript has resolved
C9_Witness ==
    /\ \A fn \in {"guidance", "scores"} :
          /\ red[fn].pc = "returned"
          /\ red[fn].invoked = 1
          /\ red[fn].text # << >>
          /\ red[fn].result = ErrorDefault(fn)
    /\ pt = "resolved"

\* C10: a guidance or score reduction called on an empty buffer has returned
\* its fixed default and has not started any pipeline.
C10_EmptyBufferNoPipeline ==
    \A fn \in {"guidance", "scores"} :
        red[fn].onEmpty
        => /\ red[fn].pc = "returned"
           /\ red[fn].result = EmptyDefault(fn)
           /\ red[fn].invoked = 0

\* both reducers have been called on an empty buffer
C10_Witness ==
    /\ transcriptHistory = << >>
    /\ red["guidance"].onEmpty /\ red["guidance"].result = TextResult(GuidanceEmpty)
    /\ red["scores"].onEmpty /\ red["scores"].result = ScoresResult(DefaultScores)

\* C11: the text a reduction has accumulated is the concatenation, in the
\* order the stream produced them, of the content of every chunk it has
\* consumed that carries content (a Content response; for the scoring
\* reducer also data.content of a chunk without processResponse), each
\* once; every other chunk adds nothing and does not end the reduction with
\* an error.
C11_ContentOf(fn, ch) ==
    IF ch.kind = "content" \/ (fn = "scores" /\ ch.kind = "direct")
    THEN ch.content ELSE << >>

RECURSIVE C11_Concat(_, _)
C11_Concat(fn, chs) ==
    IF chs = << >> THEN << >>
    ELSE C11_ContentOf(fn, Head(chs)) \o C11_Concat(fn, Tail(chs))

C11_NoContentNoError ==
    \A fn \in Fns :
        (/\ Len(consumed'[fn]) = Len(consumed[fn]) + 1
         /\ C11_ContentOf(fn, consumed'[fn][Len(consumed'[fn])]) = << >>
         /\ consumed'[fn][Len(consumed'[fn])].kind # "throws"
         /\ ~consumed'[fn][Len(consumed'[fn])].done)
        => /\ red'[fn].pc = "stream"
           /\ red'[fn].text = red[fn].text

C11_TextIsConcatenation ==
    /\ [](\A fn \in Fns : red[fn].text = C11_Concat(fn, consumed[fn]))
    /\ [][C11_NoContentNoError]_vars

\* the chunks "Pro", "fess", "ional." (the last one done) gave "Professional."
C11_Witness ==
    /\ consumed["guidance"] =
          << [kind |-> "content", content |-> Pro, done |-> FALSE],
             [kind |-> "content", content |-> Fess, done |-> FALSE],
             [kind |-> "content", content |-> Ional, done |-> TRUE] >>
    /\ red["guidance"].pc = "returned"
    /\ red["guidance"].result = TextResult(<<"Pro", "fess", "ional.">>)

\* C12: a broadcast sends the one serialized payload to every viewer that
\* is in the viewer set and open when it is made, and to no other; a viewer
\* in the set that is not open is skipped, no error is raised, and the
\* viewer set is left as it was.
C12_Receivers == {v \in Viewers : InSet(wsConnections, v) /\ readyState[v] = "open"}

C12_FanOut ==
    /\ \A v \in Viewers :
          delivered'[v] = IF v \in C12_Receivers
                          THEN << Stringify(emitted'[1]) >> ELSE << >>
    /\ wsConnections' = wsConnections
    /\ raised' = FALSE

C12_BroadcastToOpenViewers ==
    [][(\E s \in Keys, leave \in {"ok", "throws"} :
           (Started(s) \/ Stopped(s, leave)) /\ Len(emitted') = 1)
       => C12_FanOut]_vars

\* C12 holds of every broadcast in which no send throws
C12_HoldsWhenSendsReturn ==
    [][(\E s \in Keys, leave \in {"ok", "throws"} :
           (Started(s) \/ Stopped(s, leave)) /\ Len(emitted') = 1
           /\ "send" \notin handled'.faults)
       => C12_FanOut]_vars

\* one viewer open and one not: the open one was sent the event, the other
\* was skipped and is still in the set
C12_SkipCase ==
    /\ handled.event = "started"
    /\ ~raised
    /\ \E v, w \in Viewers :
          /\ InSet(wsConnections, v) /\ InSet(wsConnections, w)
          /\ delivered[v] = << Stringify(emitted[1]) >>
          /\ readyState[w] = "closing" /\ delivered[w] = << >>

\* C13: a stopped event that carries no stream id, or the id of a stream
\* without a registered session, raises nothing, broadcasts nothing and
\* leaves the registry, the clients, the Transcript Buffer and the viewer
\* set as they were.
C13_StopWithoutSessionIsNoOp ==
    [][(\E s \in Keys, leave \in {"ok", "throws"} :
           /\ s = Undefined \/ rtmsClients[s] = NoClient
           /\ Stopped(s, leave))
       => /\ raised' = FALSE
          /\ emitted' = << >>
          /\ delivered' = NothingDelivered
          /\ UNCHANGED <<rtmsClients, clients, transcriptHistory, wsConnections,
                         readyState>>]_vars

\* a stopped event for s2 found no session while s1 had one, the buffer
\* held an entry and a viewer was open
C13_Witness ==
    /\ handled = Occurrence("stopped", "s2", NoClient, NoClient, {})
    /\ rtmsClients["s1"] # NoClient
    /\ transcriptHistory # << >>
    /\ \E v \in Viewers : InSet(wsConnections, v) /\ readyState[v] = "open"
    /\ ~raised /\ emitted = << >>

C14_Effects(s) ==
    /\ clients'[rtmsClients[s]].status = "left"
    /\ rtmsClients'[s] = NoClient
    /\ transcriptHistory' = << >>
    /\ emitted' = << Event("meeting_stopped", s) >>
    /\ \A t \in Keys \ {s} : rtmsClients'[t] = rtmsClients[t]

\* C14: a stopped event for a streamId with a registered session leaves
\* that session's client, removes it from the registry, empties the
\* Transcript Buffer and hands exactly one meeting_stopped event with that
\* streamId to the broadcast; the sessions of other streamIds stay.
C14_StopTearsDownSession ==
    [][\A s \in StreamIds : \A leave \in {"ok", "throws"} :
          (rtmsClients[s] # NoClient /\ Stopped(s, leave)) => C14_Effects(s)]_vars

\* C14 holds of every stopped event whose leave() returns
C14_HoldsWhenLeaveReturns ==
    [][\A s \in StreamIds :
          (rtmsClients[s] # NoClient /\ Stopped(s, "ok")) => C14_Effects(s)]_vars

\* s1 was stopped, its client left, and an open viewer was sent the event
C14_StopCase ==
    /\ handled.event = "stopped" /\ handled.streamId = "s1" /\ handled.faults = {}
    /\ handled.session # NoClient
    /\ rtmsClients["s1"] = NoClient
    /\ clients[handled.session].status = "left"
    /\ \E v \in Viewers : delivered[v] = << Stringify(Event("meeting_stopped", "s1")) >>

C15_Effects(s) ==
    LET c == Len(clients) + 1
    IN /\ Len(clients') = c
       /\ rtmsClients'[s] = c
       /\ clients'[c].streamId = s
       /\ clients'[c].callbacks = {"transcript", "video", "audio"}
       /\ clients'[c].status = "joined"
       /\ clients'[c].joinedWith = s
       /\ transcriptHistory' = << >>
       /\ emitted' = << Event("meeting_started", s) >>

\* C15: a started event for a streamId without a registered session
\* constructs a client, registers it under that streamId, registers the
\* transcript, video and audio callbacks on it, joins with the payload of
\* the event, empties the Transcript Buffer and hands exactly one
\* meeting_started event with that streamId to the broadcast.
C15_StartCreatesSession ==
    [][\A s \in StreamIds :
          (rtmsClients[s] = NoClient /\ Started(s)) => C15_Effects(s)]_vars

\* C15 holds of every started event in whose broadcast no send throws
C15_HoldsWhenSendsReturn ==
    [][\A s \in StreamIds :
          (rtmsClients[s] = NoClient /\ Started(s) /\ ~raised') => C15_Effects(s)]_vars

\* C16: an event whose tag is neither started nor stopped changes neither
\* the registry, the clients, the Transcript Buffer nor the viewer set, and
\* nothing is broadcast or raised.
C16_OtherEventIgnored ==
    [][OtherEvent
       => /\ UNCHANGED <<rtmsClients, clients, transcriptHistory, wsConnections,
                         readyState>>
          /\ emitted' = << >>
          /\ delivered' = NothingDelivered
          /\ raised' = FALSE]_vars

\* an unknown event was handled while a session was registered, the buffer
\* held an entry and a viewer was open
C16_Witness ==
    /\ handled.event = "other"
    /\ \E s \in StreamIds : rtmsClients[s] # NoClient
    /\ transcriptHistory # << >>
    /\ \E v \in Viewers : InSet(wsConnections, v) /\ readyState[v] = "open"
    /\ emitted = << >> /\ ~raised

\* C17: a leave() that throws while a stopped event is handled does not
\* reach the caller of handleWebhookEvent.
C17_LeaveFailureIsCaught ==
    (handled.event = "stopped" /\ "leave" \in handled.faults) => ~raised

\* the pipeline errors of the cycle: start() threw or handed back no stream,
\* the stream yielded a chunk that throws, or the score text does not parse
C18_PipelineError ==
    \/ "pipeline" \in handled.faults
    \/ \E fn \in {"guidance", "scores"} : \E i \in 1..Len(consumed[fn]) :
          consumed[fn][i].kind = "throws"
    \/ red["scores"].text # << >> /\ ~JsonParse(red["scores"].text).ok

\* C18: when a pipeline error occurs during an evaluation cycle (no output
\* stream, score parse failure, exception from the pipeline), every
\* evaluation_update broadcast for that cycle carries error: true.
C18_PipelineErrorIsFlagged ==
    (handled.event = "transcript" /\ C18_PipelineError)
    => /\ emitted # << >>
       /\ \A i \in 1..Len(emitted) : emitted[i].error

\* what the code does instead: processTranscript never rejects, and unless
\* a send throws the one update carries what the reducers returned, fallback
\* values included, with no error flag
C18_FallbackWithoutFlag ==
    /\ pt # "rejected"
    /\ (handled.event = "transcript" /\ "send" \notin handled.faults)
       => emitted = << UpdateEvent(handled.streamId, red["guidance"].result.text,
                                   red["scores"].result.scores) >>

\* a cycle whose guidance pipeline handed back no stream was broadcast as
\* the fallback guidance without the flag
C18_UnflaggedCase ==
    /\ handled.event = "transcript" /\ handled.faults = {"pipeline"}
    /\ Len(emitted) = 1
    /\ emitted[1].guidance = GuidanceUnable
    /\ ~emitted[1].error
    /\ \E v \in Viewers : delivered[v] = << Stringify(emitted[1]) >>

C19_AtMostOne(n) ==
    /\ Len(emitted) <= n
    /\ \A v \in Viewers : Len(delivered[v]) <= 1

\* C19: a transcript callback results in exactly one evaluation_update
\* broadcast and no viewer is sent two of them; an accepted frame results in
\* at most one visual_evaluation_update.
C19_OneEventPerOccurrence ==
    /\ handled.event = "transcript" => (emitted # << >> /\ C19_AtMostOne(1))
    /\ handled.event = "frame" => C19_AtMostOne(1)

\* C19 holds of every callback in whose broadcast no send throws
C19_HoldsWhenSendsReturn ==
    (handled.event = "transcript" /\ "send" \notin handled.faults)
    => (emitted # << >> /\ C19_AtMostOne(1))

\* a viewer was sent two evaluation_update events by one transcript
\* callback: the update, and after the send to a later viewer threw, the
\* error update
C19_TwiceCase ==
    /\ handled.event = "transcript"
    /\ \E v \in Viewers :
          /\ Len(delivered[v]) = 2
          /\ ~delivered[v][1].error /\ delivered[v][2].error

\* C20 as stated: a failure of any stage of an accepted frame (encode,
\* write, pipeline) leaves the frame without a visual_evaluation_update, and
\* nothing leaves the callback.
C20_AnyFailureDropsFrame ==
    (handled.event = "frame"
     /\ handled.faults \cap {"encode", "write", "pipeline"} # {})
    => (emitted = << >> /\ ~raised)

\* C20, amended: no failure leaves the frame callback and no stage is run
\* again; a failed write drops the frame without a broadcast; a failed
\* encode falls back to the raw data and a failed pipeline to the fallback
\* text, which is broadcast in the one visual_evaluation_update of the frame.
C20_OnlyWriteFailureDropsFrame ==
    handled.event = "frame"
    => /\ ~raised
       /\ \A f \in frames : f.client # handled.session
       /\ "write" \in handled.faults
          => (emitted = << >> /\ delivered = NothingDelivered)
       /\ "write" \notin handled.faults
          => /\ Len(emitted) = 1
             /\ emitted[1].type = "visual_evaluation_update"
             /\ emitted[1].streamId = handled.streamId
             /\ "pipeline" \in handled.faults
                => emitted[1].visualFeedback = VisualUnable

\* a frame whose encode and whose pipeline failed was broadcast to a viewer
\* with the fallback text
C20_Witness ==
    /\ handled.event = "frame"
    /\ handled.faults = {"encode", "pipeline"}
    /\ emitted = << VisualEvent("s1", VisualUnable) >>
    /\ \E v \in Viewers : delivered[v] = << Stringify(emitted[1]) >>

\* a frame whose write failed was dropped
C20_DropCase ==
    /\ handled.event = "frame"
    /\ "write" \in handled.faults
    /\ emitted = << >>
    /\ \E v \in Viewers : InSet(wsConnections, v) /\ readyState[v] = "open"

\* C30 as stated: guidance has one default string, the one returned for an
\* empty buffer; a guidance reduction that returns without any accumulated
\* text returns that string.
C30_OneGuidanceDefault ==
    (red["guidance"].pc = "returned" /\ red["guidance"].text = << >>)
    => red["guidance"].result = TextResult(GuidanceEmpty)

C30_AtCall(start) ==
    red'["guidance"].result.text =
        IF transcriptHistory = << >> THEN GuidanceEmpty
        ELSE IF start = "stream" THEN << >>
        ELSE GuidanceUnable

C30_AtChunk(ch) ==
    IF ch.kind = "throws"
    THEN red'["guidance"].result.text = GuidanceUnable
    ELSE (ch.done /\ red'["guidance"].text = << >>)
         => red'["guidance"].result.text = GuidanceBlank

C30_AtEnd(res) ==
    red'["guidance"].result.text =
        IF res = "err" THEN GuidanceUnable
        ELSE IF red["guidance"].text = << >> THEN GuidanceBlank
        ELSE red["guidance"].text

\* C30, amended: guidance has three fixed defaults.  An empty buffer gives
\* "Start speaking to receive guidance ..."; no output stream, and anything
\* thrown by the pipeline or its stream, gives "Unable to generate guidance
\* at this time."; a stream that ends with no text gives "Keep up the good
\* work! ...".
C30_ThreeGuidanceDefaults ==
    [][/\ \A start \in StartOutcomes :
             CallReduce("guidance", start) => C30_AtCall(start)
       /\ \A ch \in ChunksOf("guidance") :
             ConsumeChunk("guidance", ch) => C30_AtChunk(ch)
       /\ \A res \in Outcomes :
             StreamEnds("guidance", res) => C30_AtEnd(res)]_vars

\* a guidance stream ended without text on a non-empty buffer and the
\* reduction returned the third default
C30_Witness ==
    /\ transcriptHistory # << >>
    /\ red["guidance"].pc = "returned"
    /\ red["guidance"].invoked = 1
    /\ red["guidance"].text = << >>
    /\ red["guidance"].result = TextResult(GuidanceBlank)

\* after the begin of a callback both reductions are running: each has
\* started and neither has completed
C29_BothRunning ==
    /\ red'["guidance"].pc = "stream"
    /\ red'["scores"].pc = "stream"
    /\ pt' = "awaiting"

\* after the begin of a callback both reducers have been called and
\* processTranscript waits for them.  A reducer whose pipeline handed back a
\* stream is running; one whose pipeline start threw or handed back no
\* stream has completed with its fallback, having consumed nothing.
C29_BothCalled ==
    /\ pt' = "awaiting"
    /\ \A fn \in {"guidance", "scores"} :
          /\ red'[fn].invoked = 1
          /\ \/ red'[fn].pc = "stream"
             \/ /\ red'[fn].pc = "returned"
                /\ "pipeline" \in cb'.faults
                /\ consumed'[fn] = << >>
                /\ red'[fn].result = IF fn = "guidance"
                                     THEN TextResult(GuidanceUnable)
                                     ELSE ScoresResult(DefaultScores)
    /\ "pipeline" \notin cb'.faults => C29_BothRunning

C29_Joined ==
    /\ red["guidance"].pc = "returned"
    /\ red["scores"].pc = "returned"
    /\ emitted'[1] = UpdateEvent(cb.streamId, red["guidance"].result.text,
                                 red["scores"].result.scores)

\* no evaluation_update is broadcast while a reduction of the cycle is
\* still running, and the update carries the results of both
C29_BroadcastAfterBoth ==
    /\ (cb # NoCallback /\ cb' = NoCallback) => C29_Joined
    /\ (\E i \in 1..Len(emitted') : emitted'[i].type = "evaluation_update")
       => (emitted' = emitted \/ (cb # NoCallback /\ cb' = NoCallback))

\* C29, as stated: for one transcript update both reductions are started
\* before either completes, no evaluation_update is broadcast while one of
\* them is still running, and the update carries the results of both.  A
\* step that suspends a callback (cb set) is the callback's begin, a step
\* that ends one (cb reset) is its continuation.
C29_StartedBeforeEitherCompletes ==
    /\ [](pt = "awaiting"
          => (red["guidance"].pc # "idle" /\ red["scores"].pc # "idle"
              /\ cb # NoCallback))
    /\ [][/\ (cb = NoCallback /\ cb' # NoCallback) => C29_BothRunning
          /\ C29_BroadcastAfterBoth]_vars

\* C29, amended: the transcript callback calls the guidance and the
\* scoring reduction before it waits for either; a reduction whose pipeline
\* start throws or hands back no stream has completed with its fallback
\* when its call returns, and when both pipelines hand back a stream both
\* reductions are started before either completes; no evaluation_update is
\* broadcast while one of them is still running, and the update carries
\* the results of both.
C29_ConcurrentThenJoined ==
    /\ [](pt = "awaiting"
          => (red["guidance"].pc # "idle" /\ red["scores"].pc # "idle"
              /\ cb # NoCallback))
    /\ [][/\ (cb = NoCallback /\ cb' # NoCallback) => C29_BothCalled
          /\ C29_BroadcastAfterBoth]_vars

\* the guidance reduction completed in its call, on a pipeline that handed
\* back no stream, and the scoring reduction, called after it, is running
C29_EarlyCompletionCase ==
    /\ pt = "awaiting" /\ cb # NoCallback
    /\ red["guidance"].pc = "returned" /\ red["guidance"].invoked = 1
    /\ consumed["guidance"] = << >>
    /\ red["scores"].pc = "stream"

\* both reductions of one transcript update are consuming their streams at
\* the same time, and nothing has been broadcast for the update yet
C29_Witness ==
    /\ pt = "awaiting" /\ cb # NoCallback
    /\ red["guidance"].pc = "stream" /\ consumed["guidance"] # << >>
    /\ red["scores"].pc = "stream" /\ consumed["scores"] # << >>
    /\ \A i \in 1..Len(emitted) : emitted[i].type # "evaluation_update"

\* the update of a cycle in which both pipelines streamed carries the
\* guidance text and the parsed scores
C29_JoinedCase ==
    /\ handled.event = "transcript"
    /\ Len(consumed["guidance"]) >= 1 /\ Len(consumed["scores"]) >= 2
    /\ emitted[1].guidance = Pro
    /\ emitted[1].scores["professionalism"] = JNum(100)
    /\ \E v \in Viewers : delivered[v] = << Stringify(emitted[1]) >>

\* C27: a viewer message {type: "clear_history"} empties the Transcript
\* Buffer and nothing is sent; any other message, malformed ones included,
\* leaves the buffer as it was; no message changes the registry, the
\* clients or the viewer set, and none raises an error.
C27_ViewerMessageEffects ==
    [][\A v \in Viewers, m \in ViewerMessages :
          OnViewerMessage(v, m)
          => /\ IF m = "clear_history"
                THEN transcriptHistory' = << >>
                ELSE transcriptHistory' = transcriptHistory
             /\ emitted' = << >>
             /\ delivered' = NothingDelivered
             /\ raised' = FALSE
             /\ UNCHANGED <<rtmsClients, clients, wsConnections, readyState>>]_vars

\* a clear request was handled after the one session of the run had
\* appended to the buffer; the session and the viewers are still there
C27_Witness ==
    /\ handled.event = "clear_history"
    /\ transcriptHistory = << >>
    /\ graphs["guidance"]
    /\ \E s \in StreamIds : rtmsClients[s] # NoClient
    /\ \E v \in Viewers : InSet(wsConnections, v)
    /\ emitted = << >> /\ ~raised

\* a message that is not JSON was handled and the buffer kept its entry
C27_MalformedCase ==
    /\ handled.event = "message" /\ handled.faults = {"parse"}
    /\ transcriptHistory # << >>
    /\ ~raised

\* C22: the connection handler adds the connecting viewer to the viewer
\* set and sends exactly one connected acknowledgment, which that viewer
\* receives and no other viewer does.  The step that makes the set grow is the connection
\* handler; the viewer it registered is the last of the set.
C22_RegisterAcknowledgesOnlyTheNewViewer ==
    [][Len(wsConnections') > Len(wsConnections)
       => LET v == wsConnections'[Len(wsConnections')]
          IN /\ ~InSet(wsConnections, v)
             /\ wsConnections' = Append(wsConnections, v)
             /\ delivered'[v] = << Stringify(Event("connected", Undefined)) >>
             /\ \A u \in Viewers \ {v} : delivered'[u] = << >>]_vars

\* C22 holds of every connection whose send returns
C22_HoldsWhenSendReturns ==
    [][(Len(wsConnections') > Len(wsConnections) /\ "send" \notin handled'.faults)
       => LET v == wsConnections'[Len(wsConnections')]
          IN /\ ~InSet(wsConnections, v)
             /\ wsConnections' = Append(wsConnections, v)
             /\ v \in attached'
             /\ delivered'[v] = << Stringify(Event("connected", Undefined)) >>
             /\ \A u \in Viewers \ {v} : delivered'[u] = << >>]_vars

\* a second viewer connected while the first was in the set and open; the
\* acknowledgment went to the second only
C22_AcknowledgedCase ==
    /\ handled.event = "connection"
    /\ Len(wsConnections) = 2
    /\ readyState[wsConnections[1]] = "open"
    /\ delivered[wsConnections[2]] = << Stringify(Event("connected", Undefined)) >>
    /\ delivered[wsConnections[1]] = << >>

\* the send of the acknowledgment threw: the viewer is in the set and
\* open, was sent nothing and has no handlers attached
C22_UnacknowledgedCase ==
    /\ handled.event = "connection" /\ "send" \in handled.faults
    /\ raised
    /\ LET v == wsConnections[Len(wsConnections)]
       IN /\ readyState[v] = "open"
          /\ v \notin attached
          /\ delivered[v] = << >>

\* a viewer whose connection handler was left at the send was closed by
\* the transport and is still in the set
C21_ClosedInSetCase ==
    \E v \in Viewers :
        InSet(wsConnections, v) /\ readyState[v] = "closed" /\ v \notin attached

\* the open viewer a broadcast failed on: the first open viewer of the set
\* that the broadcast wrote nothing to
C21_FailedOn(conns, rs, dl) ==
    conns[CHOOSE i \in 1..Len(conns) :
             /\ IsOpen(rs, conns[i]) /\ dl[conns[i]] = << >>
             /\ \A j \in 1..(i - 1) : IsOpen(rs, conns[j]) => dl[conns[j]] # << >>]

\* a viewer enters the set when it connects, and leaves it only when the
\* transport reports close or error for it
C21_Membership ==
    /\ \A v \in Viewers :
          (InSet(wsConnections', v) /\ ~InSet(wsConnections, v))
          => (handled'.event = "connection" /\ readyState'[v] = "open")
    /\ \A v \in Viewers :
          (InSet(wsConnections, v) /\ ~InSet(wsConnections', v))
          => readyState'[v] = "closed"
    /\ \A v \in Viewers :
          (readyState[v] # "closed" /\ readyState'[v] = "closed")
          => ~InSet(wsConnections', v)

\* the same for the viewers whose connection handler ran to its end: the
\* close and error handlers are attached after the acknowledgment was sent
C21_MembershipOfAttached ==
    /\ \A v \in Viewers :
          (InSet(wsConnections', v) /\ ~InSet(wsConnections, v))
          => (handled'.event = "connection" /\ readyState'[v] = "open")
    /\ \A v \in Viewers :
          (InSet(wsConnections, v) /\ ~InSet(wsConnections', v))
          => readyState'[v] = "closed"
    /\ \A v \in Viewers :
          (readyState[v] # "closed" /\ readyState'[v] = "closed" /\ v \in attached)
          => ~InSet(wsConnections', v)

\* a viewer outside the set is sent nothing
C21_OutsideGetsNothing ==
    \A v \in Viewers :
        (delivered' # delivered /\ delivered'[v] # << >>) => InSet(wsConnections', v)

\* the step of a handler whose broadcast failed on a send
C21_SendFailed ==
    /\ handled' # handled \/ emitted' # emitted \/ delivered' # delivered
    /\ raised' /\ "send" \in handled'.faults

\* C21: a viewer is in the viewer set from connect until the transport
\* reports close or error for it or a send to it fails; after any of the
\* three it is out of the set and is sent no further broadcast.
C21_InSetUntilCloseErrorOrSendFailure ==
    [][/\ C21_Membership
       /\ C21_OutsideGetsNothing
       /\ C21_SendFailed
          => ~InSet(wsConnections',
                    C21_FailedOn(wsConnections', readyState', delivered'))]_vars

\* close and error remove a viewer whose handlers are attached, and a
\* removed viewer is sent nothing: the part of C21 that does not depend on
\* a failing send
C21_HoldsForCloseAndError ==
    [][C21_MembershipOfAttached /\ C21_OutsideGetsNothing]_vars

\* a broadcast failed on an open viewer of the set, and after the handler
\* that viewer is still in the set and still open
C21_KeptCase ==
    /\ raised /\ "send" \in handled.faults
    /\ \E v \in Viewers :
          /\ InSet(wsConnections, v) /\ readyState[v] = "open"
          /\ delivered[v] = << >>
          /\ v = C21_FailedOn(wsConnections, readyState, delivered)

\* C25: when the process exits at the end of a shutdown sequence that
\* reached the pipeline teardown, the Transcript Buffer is empty, whether or
\* not the teardown failed or timed out.
C25_BufferEmptyAtExit ==
    (exitCode # NoExit /\ effects["pipelineTeardown"] >= 1)
    => transcriptHistory = << >>

\* the process exited with status 0 after a pipeline teardown that was
\* started and whose cleanup() returned, and the buffer still holds an entry
C25_KeptCase ==
    /\ exitCode = 0
    /\ effects["pipelineTeardown"] >= 1
    /\ \E i \in 1..Len(calls) : calls[i].iw = "done"
    /\ transcriptHistory # << >>

\* C26: the pipeline teardown invokes stop on each pipeline instance: when
\* the stop it awaits settles, resolved or rejected, it goes on to the stop
\* of the next instance in order, and is done only when none is left.
C26_EveryInstanceStopped ==
    [][\A i \in 1..Len(calls) :
          (calls[i].iw \in GraphNames /\ calls'[i].iw # calls[i].iw)
          => calls'[i].iw = NextLive(graphs, GraphIndex(calls[i].iw) + 1)]_vars

\* with one shutdown() invocation (part_002), after a stop that resolved
\* the teardown goes on to the next instance
C26_HoldsAfterResolvedStop ==
    [][\A i \in 1..Len(calls) :
          (/\ build = "ts2"
           /\ calls[i].iw \in GraphNames /\ calls'[i].iw # calls[i].iw
           /\ ~graphs'[calls[i].iw])
          => calls'[i].iw = NextLive(graphs, GraphIndex(calls[i].iw) + 1)]_vars

\* cleanup() returned and the evaluation instance, created before the
\* shutdown, was never stopped
C26_SkippedCase ==
    /\ \E i \in 1..Len(calls) : calls[i].iw = "done"
    /\ Len(calls) = 1
    /\ graphs["guidance"] /\ graphs["evaluation"]

\* C28: the only process exit is the one at the end of the shutdown
\* sequence: when the process has exited, shutdown() had been called and
\* the viewer cleanup, the session cleanup and the pipeline teardown had
\* all been attempted.
C28_ExitOnlyAfterTeardowns ==
    exitCode # NoExit
    => /\ calls # << >>
       /\ effects["viewerTeardown"] >= 1
       /\ effects["sessionTeardown"] >= 1
       /\ effects["pipelineTeardown"] >= 1

\* index.ts and part_002 catch a failing viewer/session cleanup inside
\* shutdown() and go on to the pipeline teardown
C28_HoldsInTsBuilds == build # "js" => C28_ExitOnlyAfterTeardowns

\* the process left from the catch block of shutdown() before the pipeline
\* teardown was called
C28_EarlyExitCase ==
    /\ exitCode = 1
    /\ effects["viewerTeardown"] >= 1
    /\ effects["pipelineTeardown"] = 0

\* the step in which the first shutdown() invocation runs cleanup()
C23_ShutdownBegins == calls = << >> /\ calls' # << >>

C23_ViewersTornDown ==
    /\ \A v \in Viewers :
          (InSet(wsConnections, v) /\ IsOpen(readyState, v))
          => /\ delivered'[v] = << Stringify(Event("server_shutdown", Undefined)),
                                   CloseFrame >>
             /\ readyState'[v] = "closing"
    /\ \A v \in Viewers : InSet(wsConnections, v) => readyState'[v] # "open"
    /\ wsConnections' = << >>

\* C23: shutdown step 1: every viewer of the viewer set is sent
\* server_shutdown and then has its connection closed, the message before
\* the close, and afterwards the viewer set is empty.
C23_ViewerTeardown == [][C23_ShutdownBegins => C23_ViewersTornDown]_vars

\* when no send throws the viewer loop does what C23 states, whatever the
\* leaves and the server close do
C23_HoldsWhenSendsReturn ==
    [][\A failing \in SUBSET StreamIds, close \in Outcomes :
          (calls = << >> /\ ShutdownCallWith({}, failing, close))
          => C23_ViewersTornDown]_vars

\* shutdown() has run cleanup() and an open viewer of the set was neither
\* sent server_shutdown nor closed, and the set was not cleared
C23_SkippedCase ==
    /\ calls # << >>
    /\ \E v \in Viewers :
          /\ InSet(wsConnections, v) /\ readyState[v] = "open"
          /\ delivered[v] = << >>

\* both viewers were sent server_shutdown and then the close frame
C23_TornDownCase ==
    /\ calls # << >> /\ wsConnections = << >>
    /\ \A v \in Viewers :
          /\ readyState[v] = "closing"
          /\ delivered[v] = << Stringify(Event("server_shutdown", Undefined)),
                               CloseFrame >>

C24_SessionsTornDown ==
    /\ \A c \in 1..Len(clients) :
          (\E s \in Keys : rtmsClients[s] = c)
          => clients'[c].status \in {"left", "leaveFailed"}
    /\ rtmsClients' = [s \in Keys |-> NoClient]

\* C24: shutdown step 2: leave is invoked on the client of every session in
\* the registry, a leave that throws for one does not keep leave from being
\* invoked on the others, and afterwards the registry is empty.
C24_SessionTeardown == [][C23_ShutdownBegins => C24_SessionsTornDown]_vars

\* when no send of the viewer loop throws, every registered client has
\* leave invoked on it, those whose leave throws included, and the registry
\* is cleared
C24_HoldsWhenSendsReturn ==
    [][\A failing \in SUBSET StreamIds, close \in Outcomes :
          (calls = << >> /\ ShutdownCallWith({}, failing, close))
          => /\ C24_SessionsTornDown
             /\ \A s \in StreamIds :
                   rtmsClients[s] # NoClient
                   => clients'[rtmsClients[s]].status =
                         IF s \in failing THEN "leaveFailed" ELSE "left"]_vars

\* shutdown() has run cleanup(), and a session is still in the registry
\* with leave never invoked on its client
C24_SkippedCase ==
    /\ calls # << >>
    /\ \E s \in StreamIds :
          /\ rtmsClients[s] # NoClient
          /\ clients[rtmsClients[s]].status = "joined"

\* the leave of one session threw, the other session was left all the same
C24_LeaveFailureCase ==
    /\ calls # << >>
    /\ rtmsClients = [s \in Keys |-> NoClient]
    /\ \E c, d \in 1..Len(clients) :
          clients[c].status = "leaveFailed" /\ clients[d].status = "left"

\* the open viewers of the set other than those whose send throws have
\* been sent the update of the cycle
C38_OthersReceive(bad) ==
    \A v \in Viewers :
        (InSet(wsConnections, v) /\ IsOpen(readyState, v) /\ v \notin bad)
        => (delivered'[v] # << >> /\ delivered'[v][1] = Stringify(emitted'[1]))

\* C38: a send that throws for one viewer during the broadcast of a
\* transcript callback does not keep the event from the other open viewers
\* of the set, and does not leave the callback as an error.
C38_SendFailureIsContained ==
    [][\A bad \in FailSets :
          OnTranscriptDataResumes(bad, bad)
          => (C38_OthersReceive(bad) /\ ~raised')]_vars

\* when no send throws every open viewer of the set gets the update and the
\* callback returns normally
C38_HoldsWhenSendsReturn ==
    [][OnTranscriptDataResumes({}, {})
       => (C38_OthersReceive({}) /\ ~raised')]_vars

\* the send to the first viewer threw in both broadcasts of a transcript
\* callback: the error left the callback and the second viewer, open and
\* in the set, was sent nothing
C38_LostCase ==
    /\ handled.event = "transcript" /\ "send" \in handled.faults
    /\ raised
    /\ Len(wsConnections) = 2
    /\ readyState[wsConnections[1]] = "open"
    /\ readyState[wsConnections[2]] = "open"
    /\ delivered[wsConnections[2]] = << >>

\* the frames that entered handling in this step
C31_Arrived == {f \in frames' \ frames : f.pc = "encode"}

\* C31: a frame that arrives less than 5000 ms after the session's last
\* accepted frame is discarded with no side effect: while the gate of a
\* client is closed its lastScreenshotTime does not move, no frame of it
\* enters handling (nothing is encoded, written or analysed for it), and a
\* frame of the client that is broadcast for was accepted earlier.
C31_ClosedGateDiscards ==
    [][\A c \in 1..Len(clients) :
          (now' = now /\ now - clients[c].lastScreenshotTime < ScreenshotInterval)
          => /\ clients'[c].lastScreenshotTime = clients[c].lastScreenshotTime
             /\ \A f \in C31_Arrived : f.client # c
             /\ \A a \in analyses' \ analyses :
                   a.client = c => a.at <= clients[c].lastScreenshotTime]_vars

\* a joined client accepted a frame, the frame has been analysed, and the
\* clock stands less than 5000 ms later: a frame that arrives now is
\* discarded
C31_Witness ==
    \E c \in 1..Len(clients) :
        /\ clients[c].status = "joined"
        /\ clients[c].lastScreenshotTime >= StartTime
        /\ now - clients[c].lastScreenshotTime \in 1..(ScreenshotInterval - 1)
        /\ \E a \in analyses : a.client = c /\ a.at = clients[c].lastScreenshotTime
        /\ \A f \in frames : f.client # c

\* C33: lastScreenshotTime is set when a frame is accepted, before its
\* encode, write and analysis complete: a frame in handling has already
\* moved it, so no frame of the client that arrived less than 5000 ms after
\* it is in handling or was analysed.
C33_MarkedAtAccept ==
    /\ \A f \in frames : clients[f.client].lastScreenshotTime >= f.at
    /\ \A f \in frames : \A a \in analyses :
          (a.client = f.client /\ a.at # f.at)
          => (a.at - f.at >= ScreenshotInterval \/ f.at - a.at >= ScreenshotInterval)
    /\ \A f, g \in frames :
          (f.client = g.client /\ f.at # g.at)
          => (g.at - f.at >= ScreenshotInterval \/ f.at - g.at >= ScreenshotInterval)

\* the analysis of an accepted frame is in flight and the clock stands less
\* than 5000 ms after the frame arrived: the gate of its client is closed
C33_Witness ==
    \E f \in frames :
        /\ f.pc = "analyse"
        /\ now - f.at \in 1..(ScreenshotInterval - 1)
        /\ clients[f.client].status = "joined"
        /\ clients[f.client].lastScreenshotTime = f.at

\* the text of the last chunk a reduction consumed, if it carries text
C32_LastContent(fn) ==
    LET ch == consumed[fn][Len(consumed[fn])]
    IN IF ch.kind = "content" \/ (fn = "scores" /\ ch.kind = "direct")
       THEN ch.content ELSE << >>

C32_EndsWith(text, tail) ==
    /\ Len(tail) <= Len(text)
    /\ SubSeq(text, Len(text) - Len(tail) + 1, Len(text)) = tail

\* C32: a reduction stops consuming at the first chunk that carries the
\* terminal marker, or when the stream is exhausted: a terminal chunk is the
\* last chunk consumed, its own content is part of the accumulated text,
\* the reduction has returned, and no chunk is consumed by a reduction that
\* has returned.
C32_StopsAtTerminal ==
    /\ [](\A fn \in Fns : \A i \in 1..Len(consumed[fn]) :
             consumed[fn][i].done
             => /\ i = Len(consumed[fn])
                /\ red[fn].pc = "returned"
                /\ C32_EndsWith(red[fn].text, C32_LastContent(fn)))
    /\ [][\A fn \in Fns :
             (red[fn].pc # "stream" /\ Len(consumed'[fn]) > Len(consumed[fn]))
             => FALSE]_vars

\* the guidance stream gave "Pro" and then "fess" with the terminal marker;
\* the reduction returned "Profess"
C32_Witness ==
    /\ consumed["guidance"] =
          << [kind |-> "content", content |-> Pro, done |-> FALSE],
             [kind |-> "content", content |-> Fess, done |-> TRUE] >>
    /\ red["guidance"].pc = "returned"
    /\ red["guidance"].result = TextResult(<<"Pro", "fess">>)

\* a stream that was exhausted without a terminal chunk
C32_ExhaustedCase ==
    /\ Len(consumed["guidance"]) = 2
    /\ \A i \in 1..2 : ~consumed["guidance"][i].done
    /\ red["guidance"].pc = "returned"
    /\ red["guidance"].result = TextResult(<<"Pro", "fess">>)

C34_Stored == transcriptHistory'[Len(transcriptHistory')]

\* C34: append stamps the current time: the entry stored by
\* append(speaker, text, metadata) has the time at which append ran as its
\* timestamp, and the speaker and the text given, for any metadata.
C34_StampsCurrentTime ==
    [][\A sp \in Speakers, tx \in 1..2, md \in Metadatas :
          AddTranscriptCall(sp, tx, md)
          => /\ C34_Stored.timestamp = now
             /\ C34_Stored.speaker = sp
             /\ C34_Stored.text = tx]_vars

\* with metadata that has no timestamp, speaker or text key the entry is
\* stamped with the time of the call and keeps the arguments
C34_HoldsWithoutSuchKeys ==
    [][\A sp \in Speakers, tx \in 1..2, md \in Metadatas :
          (AddTranscriptCall(sp, tx, md)
           /\ DOMAIN md \cap {"timestamp", "speaker", "text"} = {})
          => /\ C34_Stored.timestamp = now
             /\ C34_Stored.speaker = sp
             /\ C34_Stored.text = tx]_vars

\* an entry appended through the transcript callback carries the timestamp
\* the media source handed to the callback, not the time of the append
C34_CallbackCase ==
    /\ graphs["guidance"]
    /\ transcriptHistory # << >>
    /\ transcriptHistory[Len(transcriptHistory)].timestamp = 0
    /\ now > StartTime

\* the step of a callback that broadcasts an update of stream s
C35_UpdateFor(s) ==
    /\ frames' # frames \/ cb' # cb
    /\ \E i \in 1..Len(emitted') :
          /\ emitted'[i].type \in {"evaluation_update", "visual_evaluation_update"}
          /\ emitted'[i].streamId = s

\* meeting_stopped was broadcast for s and no meeting_started has come for
\* it since: every client made for s has been left and none is registered
C35_StoppedStream(s) ==
    /\ rtmsClients[s] = NoClient
    /\ \E c \in 1..Len(clients) : clients[c].streamId = s
    /\ \A c \in 1..Len(clients) :
          clients[c].streamId = s => clients[c].status = "left"

\* C35: once meeting_stopped has been broadcast for a stream, no
\* evaluation_update and no visual_evaluation_update is broadcast for it
\* until a later meeting_started, whatever was in flight at the stop.
C35_NoUpdateAfterStop ==
    [][\A s \in StreamIds : C35_StoppedStream(s) => ~C35_UpdateFor(s)]_vars

\* while the session of the stream is registered and joined its updates
\* are broadcast
C35_UpdatesOfLiveSession ==
    [][\A s \in StreamIds :
          C35_UpdateFor(s)
          => (C35_StoppedStream(s)
              \/ (rtmsClients[s] # NoClient /\ clients[rtmsClients[s]].status = "joined"))]_vars

\* a visual update of a stopped stream reached an open viewer
C35_LateVisualCase ==
    /\ C35_StoppedStream("s1")
    /\ handled.event = "frame"
    /\ emitted # << >> /\ emitted[1].type = "visual_evaluation_update"
    /\ \E v \in Viewers : delivered[v] = << Stringify(emitted[1]) >>

\* an evaluation update of a stopped stream reached an open viewer
C35_LateEvaluationCase ==
    /\ C35_StoppedStream("s1")
    /\ handled.event = "transcript"
    /\ emitted # << >> /\ emitted[1].type = "evaluation_update"
    /\ \E v \in Viewers : delivered[v] = << Stringify(emitted[1]) >>

\* C36: the evaluation updates of one stream are broadcast in the order
\* in which their transcript callbacks arrived.
C36_UpdatesInArrivalOrder ==
    \A i, j \in 1..Len(sent) :
        (i < j /\ sent[i].streamId = sent[j].streamId) => sent[i].seq < sent[j].seq

\* every transcript callback broadcasts its update once: no arrival number
\* is broadcast twice, and none that is still awaited has been broadcast
C36_EachUpdateOnce ==
    /\ \A i, j \in 1..Len(sent) : sent[i].seq = sent[j].seq => i = j
    /\ \A cy \in cycles : \A i \in 1..Len(sent) : sent[i].seq # cy.seq

\* the second utterance's update was broadcast while the first utterance's
\* callback was still awaiting its pipelines
C36_OvertakenCase ==
    /\ sent # << >> /\ sent[1].seq = 2
    /\ \E cy \in cycles : cy.seq = 1 /\ cy.streamId = sent[1].streamId
    /\ \E v \in Viewers : delivered[v] # << >>

C37_Registered(c) == \E k \in Keys : rtmsClients[k] = c

\* C37: no media-source connection is leaked: a client on which join was
\* called and leave was not is in the registry, where its stopped event or
\* the cleanup of shutdown finds it; once the process has exited after the
\* session cleanup, no client is left joined.
C37_NoLeakedClient ==
    /\ \A c \in 1..Len(clients) : clients[c].status = "joined" => C37_Registered(c)
    /\ (exitCode # NoExit /\ effects["sessionTeardown"] >= 1)
       => \A c \in 1..Len(clients) : clients[c].status # "joined"

\* the process has exited after the session cleanup and the first of two
\* clients that were started for the same stream is still joined
C37_DuplicateCase ==
    /\ exitCode # NoExit /\ effects["sessionTeardown"] >= 1
    /\ \E c, d \in 1..Len(clients) :
          /\ c < d
          /\ clients[c].streamId = clients[d].streamId
          /\ clients[c].streamId # Undefined
          /\ clients[c].status = "joined"
          /\ clients[d].status = "left"

\* part_000: the client of a started event without a stream id joined and
\* was never registered; the process has exited and it is still joined
C37_NoStreamIdCase ==
    /\ build # "js"
    /\ exitCode # NoExit /\ effects["sessionTeardown"] >= 1
    /\ Len(clients) = 1
    /\ clients[1].streamId = Undefined
    /\ clients[1].status = "joined"

\* the latest client of a stream that has an id is in the registry for as
\* long as it is joined
C37_HoldsForLatestClient ==
    \A c \in 1..Len(clients) :
        (/\ clients[c].status = "joined"
         /\ clients[c].streamId # Undefined
         /\ \A d \in (c + 1)..Len(clients) : clients[d].streamId # clients[c].streamId)
        => rtmsClients[clients[c].streamId] = c

\* C39: after the cleanup of shutdown has cleared the viewer set and the
\* session registry, both stay empty until the process exits, whatever
\* arrives while the later shutdown steps are awaited.
C39_EmptyAfterCleanup ==
    effects["sessionTeardown"] >= 1
    => /\ rtmsClients = [k \in Keys |-> NoClient]
       /\ wsConnections = << >>

\* the cleanup itself leaves the registry and the viewer set empty and no
\* registered client joined
C39_HoldsAtCleanup ==
    [][(effects'["sessionTeardown"] > effects["sessionTeardown"])
       => /\ rtmsClients' = [k \in Keys |-> NoClient]
          /\ wsConnections' = << >>
          /\ \A c \in 1..Len(clients) : C37_Registered(c) => clients'[c].status = "left"]_vars

\* a started event was handled after the cleanup of shutdown: the process
\* has exited with its client registered and joined
C39_StartedDuringShutdownCase ==
    /\ exitCode # NoExit
    /\ effects["sessionTeardown"] >= 1
    /\ handled.event = "started"
    /\ \E s \in StreamIds :
          /\ rtmsClients[s] # NoClient
          /\ clients[rtmsClients[s]].status = "joined"

====
